---- MODULE Spec2Model ----
(***************************************************************************)
(* A model of the rewriting and interception engine of the Ultraviolet     *)
(* clones: the URL codecs, the URL rewriters of the bundle, the handler,   *)
(* the injected client and the service worker, and the service workers'    *)
(* request handling (the network edge).                                    *)
(*                                                                         *)
(* A JavaScript string is written as a TLA+ string: a character with a     *)
(* code in 32..126 other than \ and ` stands for itself, any other         *)
(* character is written \xNN (\uNNNN above 255).  The string functions of  *)
(* the platform work on the sequence of character codes (Codes, Str).      *)
(* A JavaScript call that may throw returns a record [ok, val]: Ok(v) for  *)
(* a returned value, Throw(m) for an exception with message m.             *)
(***************************************************************************)
EXTENDS Integers, Sequences, FiniteSets, TLC

(***************************************************************************)
(* Bounds of the model.                                                    *)
(***************************************************************************)
\* longest string handed to a codec in SpecCodec
MaxLen == 3

\* number of messages the clients post to the service worker in SpecMessages
MaxMessages == 4

\* number of calls of on, once, off and emit on the EventEmitter in
\* SpecEmitter
MaxSteps == 4

\* number of calls of setAttribute in SpecDom
MaxSetAttribute == 2

\* number of calls that may be in progress at once, one in another, before
\* the engine throws its RangeError
MaxStack == 3

(***************************************************************************)
(* JavaScript values and strings.                                          *)
(***************************************************************************)
Ok(v) == [ok |-> TRUE, val |-> v]

Throw(m) == [ok |-> FALSE, val |-> m]

\* const v = ...; followed by the statements op, which read v
Let(v, op(_)) == op(v)

\* the statements op after a call that returned r.val; an exception r of
\* the call leaves them out and propagates
Then(r, op(_)) == IF r.ok THEN op(r.val) ELSE r

\* try { return <r> } catch { return v }
Catch(r, v) == IF r.ok THEN r.val ELSE v

\* a value for what has not been computed yet
None == [ok |-> FALSE, val |-> "(none)"]

\* no request, of a fetch event or handed to fetch
NoRequest == [url |-> "", method |-> "", headers |-> {}, body |-> ""]

\* the characters with codes 32..126 in code order; the two characters a
\* TLA+ string cannot hold as themselves (\ and `) are held by a space
Ascii == " !\"#$%&'()*+,-./0123456789:;<=>?@ABCDEFGHIJKLMNOPQRSTUVWXYZ[ ]^_ abcdefghijklmnopqrstuvwxyz{|}~"

At(s, i) == SubSeq(s, i, i)

\* the code of the hexadecimal digit of value d (upper case)
HexC(d) == IF d < 10 THEN 48 + d ELSE 55 + d

IsHexC(n) == n \in (48..57) \cup (65..70) \cup (97..102)

HexValC(n) == IF n <= 57 THEN n - 48 ELSE IF n <= 70 THEN n - 55 ELSE n - 87

\* a character with code n, as written in the model
Chr(n) ==
    IF n \in (32..126) \ {92, 96} THEN At(Ascii, n - 31)
    ELSE IF n < 256
    THEN "\\x" \o At(Ascii, HexC(n \div 16) - 31) \o At(Ascii, HexC(n % 16) - 31)
    ELSE "\\u" \o At(Ascii, HexC(n \div 4096) - 31) \o At(Ascii, HexC((n \div 256) % 16) - 31)
         \o At(Ascii, HexC((n \div 16) % 16) - 31) \o At(Ascii, HexC(n % 16) - 31)

\* the code of a character that stands for itself
Ord(c) == IF c = " " THEN 32 ELSE 31 + CHOOSE i \in 1..Len(Ascii) : At(Ascii, i) = c

\* f[lo] \o ... \o f[hi], for a sequence f of strings or of sequences
RECURSIVE Concat(_, _, _, _)
Concat(f, lo, hi, empty) ==
    IF lo > hi THEN empty
    ELSE IF lo = hi THEN f[lo]
    ELSE LET mid == (lo + hi) \div 2
         IN  Concat(f, lo, mid, empty) \o Concat(f, mid + 1, hi, empty)

\* the string with the character codes b
Str(b) == Concat([i \in 1..Len(b) |-> Chr(b[i])], 1, Len(b), "")

\* does a written escape start at index i of s, and is it a \uNNNN
IsWritten(s, i) == i >= 1 /\ At(s, i) = "\\"

IsWrittenWide(s, i) == IsWritten(s, i) /\ At(s, i + 1) = "u"

\* the value of the hexadecimal digit at index i of s
HexAt(s, i) == HexValC(Ord(At(s, i)))

\* the code of the character written at index i of s
CodeAt(s, i) ==
    IF ~IsWritten(s, i) THEN Ord(At(s, i))
    ELSE IF At(s, i + 1) = "u"
    THEN (4096 * HexAt(s, i + 2)) + (256 * HexAt(s, i + 3)) + (16 * HexAt(s, i + 4))
         + HexAt(s, i + 5)
    ELSE (16 * HexAt(s, i + 2)) + HexAt(s, i + 3)

\* the character codes of a string: the codes of the characters written at
\* the indices idx where a character starts
Codes(s) ==
    Let(SelectSeq([i \in 1..Len(s) |-> i],
                  LAMBDA i : ~(\/ IsWritten(s, i - 1) \/ IsWritten(s, i - 2)
                               \/ IsWritten(s, i - 3) \/ IsWrittenWide(s, i - 4)
                               \/ IsWrittenWide(s, i - 5))),
        LAMBDA idx : [k \in 1..Len(idx) |-> CodeAt(s, idx[k])])

\* String.prototype.slice(n), for a prefix of n characters that stand for
\* themselves
SliceFrom(s, n) == SubSeq(s, n + 1, Len(s))

StartsWith(s, p) == Len(p) <= Len(s) /\ SubSeq(s, 1, Len(p)) = p

Includes(s, p) == \E i \in 1..(Len(s) - Len(p) + 1) : SubSeq(s, i, i + Len(p) - 1) = p

\* 1-based index of the first occurrence of one of the characters cs, 0 if none
IndexOfAny(s, cs) ==
    IF \E i \in 1..Len(s) : At(s, i) \in cs
    THEN CHOOSE i \in 1..Len(s) : At(s, i) \in cs /\ \A j \in 1..(i - 1) : At(s, j) \notin cs
    ELSE 0

LastIndexOf(s, c) ==
    IF \E i \in 1..Len(s) : At(s, i) = c
    THEN CHOOSE i \in 1..Len(s) : At(s, i) = c /\ \A j \in (i + 1)..Len(s) : At(s, j) # c
    ELSE 0

RECURSIVE TrimStart(_)
TrimStart(s) == IF Len(s) > 0 /\ At(s, 1) = " " THEN TrimStart(SliceFrom(s, 1)) ELSE s

RECURSIVE TrimEnd(_)
TrimEnd(s) == IF Len(s) > 0 /\ At(s, Len(s)) = " " THEN TrimEnd(SubSeq(s, 1, Len(s) - 1)) ELSE s

\* String.prototype.trim (the space is the only white space of the model)
Trim(s) == TrimEnd(TrimStart(s))

LowerC(n) == IF n \in 65..90 THEN n + 32 ELSE n

\* String.prototype.toLowerCase
ToLowerCase(s) == Let(Codes(s), LAMBDA b : Str([i \in 1..Len(b) |-> LowerC(b[i])]))

\* n ^ 2 for a character code n: the bit of weight 2 is flipped
Xor2(n) == IF (n \div 2) % 2 = 1 THEN n - 2 ELSE n + 2

(***************************************************************************)
(* encodeURIComponent / decodeURIComponent / escape / unescape, on         *)
(* character codes.                                                        *)
(***************************************************************************)
PercentC(n) == <<37, HexC(n \div 16), HexC(n % 16)>>

\* the characters encodeURIComponent leaves alone: A-Z a-z 0-9 - _ . ! ~ * ' ( )
UriUnreservedC(n) ==
    n \in (65..90) \cup (97..122) \cup (48..57) \cup {45, 95, 46, 33, 126, 42, 39, 40, 41}

\* the percent-encoded UTF-8 bytes of the character with code n
Utf8PercentC(n) ==
    IF n < 128 THEN PercentC(n)
    ELSE IF n < 2048 THEN PercentC(192 + (n \div 64)) \o PercentC(128 + (n % 64))
    ELSE PercentC(224 + (n \div 4096)) \o PercentC(128 + ((n \div 64) % 64)) \o PercentC(128 + (n % 64))

EncodeURIComponentC(b) ==
    Concat([i \in 1..Len(b) |-> IF UriUnreservedC(b[i]) THEN <<b[i]>> ELSE Utf8PercentC(b[i])],
           1, Len(b), <<>>)

EncodeURIComponent(s) == Str(EncodeURIComponentC(Codes(s)))

\* is b[i..i+2] an escape %XX
IsEscapeAt(b, i) == i + 2 <= Len(b) /\ b[i] = 37 /\ IsHexC(b[i + 1]) /\ IsHexC(b[i + 2])

EscapeAt(b, i) == (16 * HexValC(b[i + 1])) + HexValC(b[i + 2])

\* the units of b that start at the indices idx: an escape %XX (a byte) or
\* a character
Units(b, idx) ==
    [k \in 1..Len(idx) |->
        [esc |-> b[idx[k]] = 37,
         val |-> IF b[idx[k]] = 37 THEN EscapeAt(b, idx[k]) ELSE b[idx[k]]]]

\* the unit k of u is an escaped UTF-8 continuation byte, the lead byte of
\* a two-byte sequence, of a three-byte sequence
IsCont(u, k) == k >= 1 /\ k <= Len(u) /\ u[k].esc /\ u[k].val \in 128..191

IsLead2(u, k) == k >= 1 /\ k <= Len(u) /\ u[k].esc /\ u[k].val \in 194..223

IsLead3(u, k) == k >= 1 /\ k <= Len(u) /\ u[k].esc /\ u[k].val \in 224..239

\* the unit k of u is a character, or a byte at its place in a well-formed
\* UTF-8 sequence (no overlong form, no surrogate)
WellFormed(u, k) ==
    IF ~u[k].esc \/ u[k].val < 128 THEN TRUE
    ELSE IF IsCont(u, k)
    THEN IsLead2(u, k - 1) \/ IsLead3(u, k - 1) \/ (IsCont(u, k - 1) /\ IsLead3(u, k - 2))
    ELSE IF IsLead2(u, k) THEN IsCont(u, k + 1)
    ELSE IF IsLead3(u, k)
    THEN /\ IsCont(u, k + 1) /\ IsCont(u, k + 2)
         /\ (u[k].val = 224 => u[k + 1].val >= 160)
         /\ (u[k].val = 237 => u[k + 1].val < 160)
    ELSE FALSE

\* the character that starts at the unit k of u
Utf8Char(u, k) ==
    IF IsLead2(u, k) THEN ((u[k].val - 192) * 64) + (u[k + 1].val - 128)
    ELSE IF IsLead3(u, k)
    THEN ((u[k].val - 224) * 4096) + ((u[k + 1].val - 128) * 64) + (u[k + 2].val - 128)
    ELSE u[k].val

\* the characters of the units u, one for every unit that is not a
\* continuation byte
Utf8Decode(u) ==
    IF \E k \in 1..Len(u) : ~WellFormed(u, k) THEN Throw("URI malformed")
    ELSE Let(SelectSeq([k \in 1..Len(u) |-> k], LAMBDA k : ~IsCont(u, k)),
             LAMBDA starts : Ok([j \in 1..Len(starts) |-> Utf8Char(u, starts[j])]))

\* decodeURIComponent: a '%' that does not start an escape, or escapes that
\* are not the UTF-8 bytes of a character, are a URIError (a character above
\* U+FFFF, four bytes, is outside the model and counts as malformed)
DecodeURIComponentC(b) ==
    IF \E i \in 1..Len(b) : b[i] = 37 /\ ~IsEscapeAt(b, i) THEN Throw("URI malformed")
    ELSE Utf8Decode(Units(b, SelectSeq([i \in 1..Len(b) |-> i],
                                       LAMBDA i : ~(\/ (i > 1 /\ b[i - 1] = 37)
                                                    \/ (i > 2 /\ b[i - 2] = 37)))))

DecodeURIComponent(s) == Then(DecodeURIComponentC(Codes(s)), LAMBDA d : Ok(Str(d)))

\* unescape: every %XX becomes the character with that code, anything else
\* (a malformed escape included) is kept
UnescapeC(b) ==
    Let(SelectSeq([i \in 1..Len(b) |-> i],
                  LAMBDA i : ~(\/ (i > 1 /\ IsEscapeAt(b, i - 1))
                               \/ (i > 2 /\ IsEscapeAt(b, i - 2)))),
        LAMBDA idx : [k \in 1..Len(idx) |->
                         IF IsEscapeAt(b, idx[k]) THEN EscapeAt(b, idx[k]) ELSE b[idx[k]]])

\* the characters escape leaves alone: A-Z a-z 0-9 @ * _ + - . /
EscapeUnreservedC(n) ==
    n \in (65..90) \cup (97..122) \cup (48..57) \cup {64, 42, 95, 43, 45, 46, 47}

\* escape, of a string of characters with codes 0..255
EscapeC(b) ==
    Concat([i \in 1..Len(b) |-> IF EscapeUnreservedC(b[i]) THEN <<b[i]>> ELSE PercentC(b[i])],
           1, Len(b), <<>>)

(***************************************************************************)
(* btoa / atob, on character codes.                                        *)
(***************************************************************************)
\* the code of the base64 digit of value v: A-Z a-z 0-9 + /
B64C(v) ==
    IF v < 26 THEN 65 + v ELSE IF v < 52 THEN 71 + v ELSE IF v < 62 THEN v - 4
    ELSE IF v = 62 THEN 43 ELSE 47

IsB64C(n) == n \in (65..90) \cup (97..122) \cup (48..57) \cup {43, 47}

B64ValC(n) ==
    IF n \in 65..90 THEN n - 65 ELSE IF n \in 97..122 THEN n - 71
    ELSE IF n \in 48..57 THEN n + 4 ELSE IF n = 43 THEN 62 ELSE 63

\* the byte at (1-based) index i of b, 0 past its end
ByteAt(b, i) == IF i <= Len(b) THEN b[i] ELSE 0

\* the four base64 characters of the g-th (0-based) group of three bytes
B64Group(b, g) ==
    LET x == ByteAt(b, (3 * g) + 1)
        y == ByteAt(b, (3 * g) + 2)
        z == ByteAt(b, (3 * g) + 3)
    IN  <<B64C(x \div 4),
          B64C(((x % 4) * 16) + (y \div 16)),
          IF (3 * g) + 2 > Len(b) THEN 61 ELSE B64C(((y % 16) * 4) + (z \div 64)),
          IF (3 * g) + 3 > Len(b) THEN 61 ELSE B64C(z % 64)>>

\* btoa of a string of characters with codes 0..255
BtoaC(b) ==
    LET groups == (Len(b) + 2) \div 3
    IN  Concat([g \in 1..groups |-> B64Group(b, g - 1)], 1, groups, <<>>)

\* the value of the base64 digit at (1-based) index i of d, 0 past its end
DigitAt(d, i) == IF i <= Len(d) THEN B64ValC(d[i]) ELSE 0

\* the bytes of base64 digits d (their number is not 1 mod 4)
B64Bytes(d) ==
    [k \in 1..((Len(d) * 3) \div 4) |->
        LET g == 4 * ((k - 1) \div 3)
            r == (k - 1) % 3
        IN  IF r = 0 THEN (DigitAt(d, g + 1) * 4) + (DigitAt(d, g + 2) \div 16)
            ELSE IF r = 1 THEN ((DigitAt(d, g + 2) % 16) * 16) + (DigitAt(d, g + 3) \div 4)
            ELSE ((DigitAt(d, g + 3) % 4) * 64) + DigitAt(d, g + 4)]

\* atob (forgiving-base64 decode): white space is removed, one or two '='
\* are dropped from the end of data whose length is a multiple of 4; what
\* is left must not have a length of 1 mod 4 nor a character outside the
\* alphabet
AtobC(b) ==
    Let(SelectSeq(b, LAMBDA n : n # 32),
        LAMBDA s :
            Let(IF Len(s) % 4 = 0 /\ Len(s) >= 2 /\ s[Len(s)] = 61 /\ s[Len(s) - 1] = 61
                THEN SubSeq(s, 1, Len(s) - 2)
                ELSE IF Len(s) % 4 = 0 /\ Len(s) >= 1 /\ s[Len(s)] = 61
                THEN SubSeq(s, 1, Len(s) - 1)
                ELSE s,
                LAMBDA data :
                    IF Len(data) % 4 = 1 \/ \E i \in 1..Len(data) : ~IsB64C(data[i])
                    THEN Throw("The string to be decoded is not correctly encoded.")
                    ELSE Ok(B64Bytes(data))))

(***************************************************************************)
(* uv.bundle.js: the codecs.  Each returns Ok(string) or Throw(message).   *)
(***************************************************************************)
\* the loop of xor.encode and xor.decode: the character at every odd
\* (0-based) index is xor-ed with 2
XorPass(b) == [i \in 1..Len(b) |-> IF (i - 1) % 2 = 1 THEN Xor2(b[i]) ELSE b[i]]

none_encode(str) == Ok(str)

none_decode(str) == Ok(str)

plain_encode(str) == IF str = "" THEN Ok(str) ELSE Ok(EncodeURIComponent(str))

plain_decode(str) == IF str = "" THEN Ok(str) ELSE DecodeURIComponent(str)

xor_encode(str) ==
    IF str = "" THEN Ok(str) ELSE Ok(Str(EncodeURIComponentC(XorPass(Codes(str)))))

\* xor.decode without its xor loop
xor_decode_noloop(str) == IF str = "" THEN Ok(str) ELSE DecodeURIComponent(str)

xor_decode(str) ==
    IF str = "" THEN Ok(str)
    ELSE Then(DecodeURIComponentC(Codes(str)), LAMBDA d : Ok(Str(XorPass(d))))

base64_encode(str) ==
    IF str = "" THEN Ok(str) ELSE Ok(Str(BtoaC(EncodeURIComponentC(Codes(str)))))

base64_decode(str) ==
    IF str = "" THEN Ok(str)
    ELSE Then(AtobC(Codes(str)),
              LAMBDA b : Then(DecodeURIComponentC(b), LAMBDA d : Ok(Str(d))))

Codecs == {"none", "plain", "xor", "base64"}

\* Ultraviolet.codec[codec].encode(str)
CodecEncode(codec, str) ==
    CASE codec = "none" -> none_encode(str)
      [] codec = "plain" -> plain_encode(str)
      [] codec = "xor" -> xor_encode(str)
      [] codec = "base64" -> base64_encode(str)

\* Ultraviolet.codec[codec].decode(str)
CodecDecode(codec, str) ==
    CASE codec = "none" -> none_decode(str)
      [] codec = "plain" -> plain_decode(str)
      [] codec = "xor" -> xor_decode(str)
      [] codec = "base64" -> base64_decode(str)

(***************************************************************************)
(* new URL(url, base): the URL parser of the platform, for URLs without    *)
(* credentials, back slashes or characters that a path percent-encodes.    *)
(* A parsed URL is a record; Href, Origin, Protocol, Host, Pathname and    *)
(* Search are its properties.                                              *)
(***************************************************************************)
\* the value undefined, for a base that is not given
Undefined == "(undefined)"

Letters == {At("abcdefghijklmnopqrstuvwxyzABCDEFGHIJKLMNOPQRSTUVWXYZ", i) : i \in 1..52}

Digits == {At("0123456789", i) : i \in 1..10}

SpecialSchemes == {"http", "https", "ws", "wss", "ftp"}

DefaultPort(scheme) ==
    CASE scheme \in {"http", "ws"} -> "80"
      [] scheme \in {"https", "wss"} -> "443"
      [] OTHER -> "21"

\* code points a host may not contain (those that end the authority apart)
ForbiddenHostChars == {" ", "<", ">", "[", "]", "^", "|", "%", "\""}

\* 1-based index of the ':' that ends the scheme of s, 0 if s has no scheme
SchemeEnd(s) ==
    Let(IndexOfAny(s, {":"}),
        LAMBDA k : IF /\ k > 1
                      /\ At(s, 1) \in Letters
                      /\ \A i \in 2..(k - 1) :
                             At(s, i) \in Letters \cup Digits \cup {"+", "-", "."}
                   THEN k ELSE 0)

\* s cut before the first of the characters cs: all of s and "" when it has
\* none of them
Cut(s, cs) ==
    Let(IndexOfAny(s, cs),
        LAMBDA k : [head |-> IF k = 0 THEN s ELSE SubSeq(s, 1, k - 1),
                    tail |-> IF k = 0 THEN "" ELSE SliceFrom(s, k - 1)])

\* the pieces of s between the occurrences of the character c
RECURSIVE Split(_, _)
Split(s, c) ==
    IF ~Includes(s, c) THEN <<s>>
    ELSE Let(Cut(s, {c}), LAMBDA p : <<p.head>> \o Split(SliceFrom(p.tail, 1), c))

RECURSIVE Join(_, _)
Join(segs, c) ==
    IF segs = <<>> THEN ""
    ELSE IF Len(segs) = 1 THEN segs[1]
    ELSE segs[1] \o c \o Join(Tail(segs), c)

\* the path segments left once "." and ".." are resolved (one of them in
\* the last place leaves an empty last segment)
RECURSIVE RemoveDots(_, _)
RemoveDots(segs, out) ==
    IF segs = <<>> THEN out
    ELSE RemoveDots(Tail(segs),
                    IF Head(segs) \notin {".", ".."} THEN Append(out, Head(segs))
                    ELSE (IF Head(segs) = ".." THEN SubSeq(out, 1, Len(out) - 1) ELSE out)
                         \o (IF Len(segs) = 1 THEN <<"">> ELSE <<>>))

\* the path of a special URL, from a path "" or "/..."
NormalizePath(path) ==
    IF path = "" THEN "/"
    ELSE "/" \o Join(RemoveDots(Split(SliceFrom(path, 1), "/"), <<>>), "/")

\* s split in path, query ("" or "?...") and fragment ("" or "#...")
PathQueryHash(s) ==
    Let(Cut(s, {"#"}),
        LAMBDA h : Let(Cut(h.head, {"?"}),
                       LAMBDA pq : [path |-> pq.head, query |-> pq.tail, hash |-> h.tail]))

RECURSIVE StripSlashes(_)
StripSlashes(s) == IF StartsWith(s, "/") THEN StripSlashes(SliceFrom(s, 1)) ELSE s

\* the authority cut at its last ':' (none: no port)
HostPort(auth) ==
    Let(LastIndexOf(auth, ":"),
        LAMBDA c : [host |-> ToLowerCase(IF c = 0 THEN auth ELSE SubSeq(auth, 1, c - 1)),
                    port |-> IF c = 0 THEN "" ELSE SliceFrom(auth, c)])

\* a URL with a special scheme, from its host and port hp and its path,
\* query and fragment p
SpecialURL(scheme, hp, p) ==
    IF \/ hp.host = ""
       \/ \E i \in 1..Len(hp.host) : At(hp.host, i) \in ForbiddenHostChars
       \/ \E i \in 1..Len(hp.port) : At(hp.port, i) \notin Digits
    THEN Throw("Invalid URL")
    ELSE Ok([scheme |-> scheme, special |-> TRUE,
             host |-> IF hp.port = "" \/ hp.port = DefaultPort(scheme) THEN hp.host
                      ELSE hp.host \o ":" \o hp.port,
             path |-> NormalizePath(p.path), query |-> p.query, hash |-> p.hash])

\* what follows the scheme is the path of a URL whose scheme is not
\* special, and the authority a.head and the path, query and fragment a.tail
\* of one whose scheme is
AfterScheme(scheme, rest) ==
    IF scheme \notin SpecialSchemes
    THEN Let(PathQueryHash(rest),
             LAMBDA p : Ok([scheme |-> scheme, special |-> FALSE, host |-> "",
                            path |-> p.path, query |-> p.query, hash |-> p.hash]))
    ELSE Let(Cut(StripSlashes(rest), {"/", "?", "#"}),
             LAMBDA a : SpecialURL(scheme, HostPort(a.head), PathQueryHash(a.tail)))

\* a string with a scheme, parsed
ParseAbsolute(s) ==
    Let(SchemeEnd(s),
        LAMBDA k : AfterScheme(ToLowerCase(SubSeq(s, 1, k - 1)), SliceFrom(s, k)))

\* the directory of a path: up to and including its last '/'
DirOf(path) == SubSeq(path, 1, LastIndexOf(path, "/"))

\* a string without a scheme, parsed against the parsed base b: the base
\* with the path, query and fragment p of the relative reference
ParseRelative(s, b) ==
    IF StartsWith(s, "#") THEN Ok([b EXCEPT !.hash = s])
    ELSE IF ~b.special THEN Throw("Invalid URL")
    ELSE IF s = "" THEN Ok([b EXCEPT !.hash = ""])
    ELSE IF StartsWith(s, "//") THEN ParseAbsolute(b.scheme \o ":" \o s)
    ELSE Let(PathQueryHash(s),
             LAMBDA p :
                 IF StartsWith(s, "/")
                 THEN Ok([b EXCEPT !.path = NormalizePath(p.path),
                                   !.query = p.query, !.hash = p.hash])
                 ELSE IF p.path = ""
                 THEN Ok([b EXCEPT !.query = p.query, !.hash = p.hash])
                 ELSE Ok([b EXCEPT !.path = NormalizePath(DirOf(b.path) \o p.path),
                                   !.query = p.query, !.hash = p.hash]))

\* the string s parsed against the parsed base b
ParseWithBase(s, base, b) ==
    IF base # Undefined /\ ~b.ok THEN Throw("Invalid base URL")
    ELSE IF SchemeEnd(s) > 0 THEN ParseAbsolute(s)
    ELSE IF ~b.ok THEN Throw("Invalid URL")
    ELSE ParseRelative(s, b.val)

\* new URL(url, base): a base that is given must parse by itself
ParseURL(url, base) ==
    ParseWithBase(Trim(url), base,
                  IF base = Undefined THEN Throw("no base")
                  ELSE IF SchemeEnd(Trim(base)) = 0 THEN Throw("Invalid base URL")
                  ELSE ParseAbsolute(Trim(base)))

\* URL.prototype.href
Href(u) ==
    IF u.special THEN u.scheme \o "://" \o u.host \o u.path \o u.query \o u.hash
    ELSE u.scheme \o ":" \o u.path \o u.query \o u.hash

\* URL.prototype.origin
Origin(u) == IF u.special THEN u.scheme \o "://" \o u.host ELSE "null"

\* URL.prototype.protocol
Protocol(u) == u.scheme \o ":"

\* URL.prototype.host
Host(u) == u.host

\* URL.prototype.pathname
Pathname(u) == u.path

\* URL.prototype.search
Search(u) == IF u.query = "?" THEN "" ELSE u.query

\* new URL(url, base).href
ResolveHref(url, base) == Then(ParseURL(url, base), LAMBDA u : Ok(Href(u)))

(***************************************************************************)
(* The page and the configuration the rewriters run in.                    *)
(***************************************************************************)
\* config.prefix, PROXY_PREFIX
Prefix == "/service/"

\* location.origin of the proxy's pages and workers
LocationOrigin == "https://proxy.test"

\* location.protocol of the proxy's pages
LocationProtocol == "https:"

\* location.href of the proxied page whose source URL is url (uv.config.js
\* selects the xor codec)
LocationHref(url) == LocationOrigin \o Prefix \o xor_encode(url).val

\* a || b on strings
OrElse(a, b) == IF a # "" THEN a ELSE b

(***************************************************************************)
(* uv.bundle.js: Ultraviolet.rewriteUrl and Ultraviolet.sourceUrl.  meta   *)
(* is [base, url, origin]; cdc is the codec the instance was built with.   *)
(***************************************************************************)
\* this.urlRegex.test(url)
urlRegex(url) ==
    \E p \in {"#", "about:", "data:", "mailto:", "blob:", "javascript:"} : StartsWith(url, p)

\* Ultraviolet.rewriteJS
rewriteJS(code) == code

\* the url trimmed is skipped, or resolved in the try block (the catch
\* block has url in its place) and encoded behind origin + this.prefix
rewriteUrl(url, meta, cdc) ==
    IF url = "" THEN url
    ELSE Let(Trim(url),
             LAMBDA u :
                 IF urlRegex(u) THEN u
                 ELSE IF StartsWith(u, "javascript:")
                 THEN "javascript:" \o rewriteJS(SliceFrom(u, 11))
                 ELSE OrElse(meta.origin, LocationOrigin) \o Prefix
                      \o CodecEncode(cdc,
                             Catch(IF StartsWith(u, "//") THEN Ok(LocationProtocol \o u)
                                   ELSE ResolveHref(u, OrElse(meta.base,
                                                       OrElse(meta.url, LocationHref(meta.url)))),
                                   u)).val)

\* the code that rewriteUrl(url, meta) hands to this.rewriteJS, call by call
rewriteUrl_rewriteJS(url) ==
    IF url = "" THEN <<>>
    ELSE IF urlRegex(Trim(url)) THEN <<>>
    ELSE IF StartsWith(Trim(url), "javascript:") THEN <<SliceFrom(Trim(url), 11)>>
    ELSE <<>>

sourceUrl(url, meta, cdc) ==
    IF url = "" THEN url
    ELSE IF urlRegex(url) THEN url
    ELSE Let(OrElse(meta.origin, LocationOrigin) \o Prefix,
             LAMBDA prefix :
                 IF StartsWith(url, prefix)
                 THEN Catch(CodecDecode(cdc, SliceFrom(url, Len(prefix))), url)
                 ELSE IF StartsWith(url, Prefix)
                 THEN Catch(CodecDecode(cdc, SliceFrom(url, Len(Prefix))), url)
                 ELSE url)

(***************************************************************************)
(* uv.handler.js: rewriteUrl and sourceUrl.  source is uv.source, the      *)
(* decoded URL of the current page; the instance uses the xor codec.       *)
(***************************************************************************)
HandlerSkip == {"data:", "blob:", "javascript:", "about:", "mailto:", "tel:", "#"}

\* the url trimmed is skipped, or config.prefix + uv.encodeUrl(absoluteUrl),
\* or itself when new URL throws
handler_rewriteUrl(url, base, source) ==
    IF url = "" THEN url
    ELSE Let(Trim(url),
             LAMBDA u :
                 IF \E p \in HandlerSkip : StartsWith(u, p) THEN u
                 ELSE IF Includes(u, Prefix) THEN u
                 ELSE Catch(Then(ResolveHref(u, OrElse(base, source)),
                                 LAMBDA absoluteUrl : Ok(Prefix \o xor_encode(absoluteUrl).val)),
                            u))

handler_sourceUrl(url, source) ==
    IF url = "" THEN url
    ELSE Catch(Then(ParseURL(url, LocationHref(source)),
                    LAMBDA urlObj :
                        IF StartsWith(Pathname(urlObj), Prefix)
                        THEN xor_decode(SliceFrom(Pathname(urlObj), Len(Prefix)))
                        ELSE Ok(url)),
               url)

(***************************************************************************)
(* sw.js and uv.client.js: URL-safe base64 and the rewriters built on it.  *)
(***************************************************************************)
\* .replace(/\+/g, '-').replace(/\//g, '_').replace(/=/g, '')
UrlSafe(b) ==
    Let(SelectSeq(b, LAMBDA n : n # 61),
        LAMBDA c : [i \in 1..Len(c) |->
                       IF c[i] = 43 THEN 45 ELSE IF c[i] = 47 THEN 95 ELSE c[i]])

\* .replace(/-/g, '+').replace(/_/g, '/')
UrlUnsafe(b) == [i \in 1..Len(b) |-> IF b[i] = 45 THEN 43 ELSE IF b[i] = 95 THEN 47 ELSE b[i]]

\* while (padded.length % 4) padded += '='
RECURSIVE Pad(_)
Pad(b) == IF Len(b) % 4 = 0 THEN b ELSE Pad(Append(b, 61))

\* sw.js encodeUrl: btoa(unescape(encodeURIComponent(url))) made URL-safe
\* (its catch, which returns null, is never entered: btoa is given bytes)
sw_encodeUrl(url) == Str(UrlSafe(BtoaC(UnescapeC(EncodeURIComponentC(Codes(url))))))

\* the value null
Null == [ok |-> FALSE, val |-> "null"]

\* sw.js decodeUrl: Ok(decodeURIComponent(escape(atob(padded)))), or Null
\* when atob or decodeURIComponent throws
sw_decodeUrl(encoded) ==
    Let(Then(AtobC(Pad(UrlUnsafe(Codes(encoded)))),
             LAMBDA b : Then(DecodeURIComponentC(EscapeC(b)), LAMBDA d : Ok(Str(d)))),
        LAMBDA r : IF r.ok THEN r ELSE Null)

SwSkipPrefixes ==
    {"data:", "blob:", "javascript:", "about:", "chrome:", "chrome-extension:",
     "moz-extension:", "safari-extension:"}

\* sw.js shouldProxy
shouldProxy(url) == url # "" /\ ~\E p \in SwSkipPrefixes : StartsWith(url, p)

\* sw.js createProxyUrl: PROXY_PREFIX + encodeUrl(absolute), or
\* originalUrl in the catch block
createProxyUrl(originalUrl, baseUrl) ==
    IF originalUrl = "" \/ ~shouldProxy(originalUrl) THEN originalUrl
    ELSE Catch(Then(IF StartsWith(originalUrl, "//")
                    THEN Then(ParseURL(baseUrl, Undefined),
                              LAMBDA baseUrlObj : Ok(Protocol(baseUrlObj) \o originalUrl))
                    ELSE IF StartsWith(originalUrl, "/")
                    THEN Then(ParseURL(baseUrl, Undefined),
                              LAMBDA baseUrlObj : Ok(Origin(baseUrlObj) \o originalUrl))
                    ELSE IF /\ ~StartsWith(originalUrl, "http://")
                            /\ ~StartsWith(originalUrl, "https://")
                    THEN ResolveHref(originalUrl, baseUrl)
                    ELSE Ok(originalUrl),
                    LAMBDA absolute : Ok(Prefix \o sw_encodeUrl(absolute))),
               originalUrl)

\* uv.client.js encodeUrl: the prefix and the URL-safe base64 of the URL
client_encodeUrl(url) ==
    Prefix \o Str(UrlSafe(BtoaC(UnescapeC(EncodeURIComponentC(Codes(url))))))

ClientSkipPrefixes == {"data:", "blob:", "javascript:", "about:", "mailto:", "tel:", "#", Prefix}

\* uv.client.js shouldProxy
client_shouldProxy(url) == url # "" /\ ~\E p \in ClientSkipPrefixes : StartsWith(url, p)

\* uv.client.js resolveAndEncode: encodeUrl(absolute), or url in the catch
\* block
resolveAndEncode(url, base) ==
    IF ~client_shouldProxy(url) THEN url
    ELSE Catch(Then(ResolveHref(url, base), LAMBDA absolute : Ok(client_encodeUrl(absolute))),
               url)

(***************************************************************************)
(* Headers, Request and Response of the platform.  A header list is a set  *)
(* of [name, value] with names that differ in more than case; a response   *)
(* is [type, status, headers, body].                                       *)
(***************************************************************************)
\* a body that is null
NullBody == "(null)"

\* Headers.prototype.get: the value of the header with that name, whatever
\* the case; "" stands for null
Get(headers, name) ==
    IF \E h \in headers : ToLowerCase(h.name) = ToLowerCase(name)
    THEN (CHOOSE h \in headers : ToLowerCase(h.name) = ToLowerCase(name)).value
    ELSE ""

\* Headers.prototype.entries: the names come in lower case
Entries(headers) == {[name |-> ToLowerCase(h.name), value |-> h.value] : h \in headers}

\* new Response(text, {status, headers}) for a status in 200..599: a text
\* body brings its content type when none is given
TextResponse(text, status, headers) ==
    [type |-> "default", status |-> status,
     headers |-> IF Get(headers, "content-type") # "" THEN Entries(headers)
                 ELSE Entries(headers)
                      \cup {[name |-> "content-type", value |-> "text/plain;charset=UTF-8"]},
     body |-> text]

\* new Response(body, {status, headers}) for the body of another response:
\* a status outside 200..599 is a RangeError, a body with a null-body
\* status a TypeError
StreamResponse(body, status, headers) ==
    IF status \notin 200..599
    THEN Throw("Failed to construct 'Response': The status provided (0) is outside the range [200, 599].")
    ELSE IF body # NullBody /\ status \in {204, 205, 304}
    THEN Throw("Failed to construct 'Response': Response with null body status cannot have body")
    ELSE Ok([type |-> "default", status |-> status, headers |-> Entries(headers), body |-> body])

\* Response.redirect(url, status): url is parsed against the worker's URL
Response_redirect(url, status) ==
    IF status \notin {301, 302, 303, 307, 308}
    THEN Throw("Failed to execute 'redirect' on 'Response': Invalid status code")
    ELSE Then(ResolveHref(url, LocationOrigin \o "/sw.js"),
              LAMBDA location :
                  Ok([type |-> "default", status |-> status,
                      headers |-> {[name |-> "location", value |-> location]},
                      body |-> NullBody]))

(***************************************************************************)
(* sw.js: the fetch listener and handleProxyRequest.  A step of a handler  *)
(* is [phases, target, sent, fetches, response]: the states of the request *)
(* it went through, the decoded target, the request it handed to fetch,    *)
(* the number of calls of fetch, and its response (None while it awaits    *)
(* fetch).  The end of a handler is [terminal, response].                  *)
(***************************************************************************)
\* the listener calls event.respondWith(handleProxyRequest(...))
sw_intercepts(url) ==
    /\ StartsWith(Protocol(url), "http")
    /\ ~(\/ StartsWith(Pathname(url), "/static/")
         \/ Pathname(url) = "/"
         \/ Pathname(url) = "/search"
         \/ StartsWith(Pathname(url), "/uv/"))
    /\ StartsWith(Pathname(url), Prefix)

forwardHeaders ==
    {"accept", "accept-language", "content-type", "range", "if-none-match", "if-modified-since"}

\* the stripped headers without x-frame-options
StrippedHeaders_noFrameOptions == {"content-security-policy", "content-encoding"}

\* the headers skipped when the response headers are cloned
StrippedHeaders == {"content-security-policy", "x-frame-options", "content-encoding"}

\* the catch block of handleProxyRequest
sw_catch(message) ==
    [terminal |-> "Failed", response |-> TextResponse("Proxy error: " \o message, 502, {})]

\* the Headers object built for the target, or the exception of
\* new URL(targetUrl)
sw_headers(request, targetUrl) ==
    Then(ParseURL(targetUrl, Undefined),
         LAMBDA targetUrlObj :
             Ok({[name |-> h, value |-> Get(request.headers, h)] :
                    h \in {f \in forwardHeaders : Get(request.headers, f) # ""}}
                \cup {[name |-> "host", value |-> Host(targetUrlObj)],
                      [name |-> "origin", value |-> Origin(targetUrlObj)],
                      [name |-> "referer", value |-> targetUrl]}))

\* new Request(request.url, {method, headers: request.headers, body, ...})
proxyRequest(request) ==
    [url |-> request.url, method |-> request.method, headers |-> Entries(request.headers),
     body |-> IF request.method # "GET" /\ request.method # "HEAD" THEN request.body
              ELSE Undefined]

\* the try block up to await fetch(proxyRequest); headers is built and
\* left unused
handleProxyRequest_try(request, targetUrl, headers) ==
    IF ~headers.ok
    THEN [phases |-> <<"Received", "Decoded", "Failed">>, target |-> Ok(targetUrl),
          sent |-> NoRequest, fetches |-> 0, response |-> sw_catch(headers.val).response]
    ELSE [phases |-> <<"Received", "Decoded", "Forwarded">>, target |-> Ok(targetUrl),
          sent |-> proxyRequest(request), fetches |-> 1, response |-> None]

\* handleProxyRequest up to await fetch(proxyRequest): targetUrl is the
\* decoded URL with the query string of the request appended
handleProxyRequest(request, url) ==
    Let(sw_decodeUrl(SliceFrom(Pathname(url), Len(Prefix))),
        LAMBDA decodedUrl :
            IF ~decodedUrl.ok \/ decodedUrl.val = ""
            THEN [phases |-> <<"Received", "Failed">>, target |-> decodedUrl, sent |-> NoRequest,
                  fetches |-> 0, response |-> TextResponse("Invalid encoded URL", 400, {})]
            ELSE Let(IF Search(url) # ""
                     THEN decodedUrl.val
                          \o (IF Includes(decodedUrl.val, "?") THEN "&" ELSE "?")
                          \o SliceFrom(Search(url), 1)
                     ELSE decodedUrl.val,
                     LAMBDA targetUrl :
                         handleProxyRequest_try(request, targetUrl,
                                                sw_headers(request, targetUrl))))

\* a response made in the try block, or the catch block for its exception
sw_return(terminal, made) ==
    IF made.ok THEN [terminal |-> terminal, response |-> made.val] ELSE sw_catch(made.val)

\* the response headers cloned without the stripped ones
newHeaders(response) ==
    {h \in Entries(response.headers) : ToLowerCase(h.name) \notin StrippedHeaders}

\* handleProxyRequest from await fetch(proxyRequest) on: fetched is the
\* response of fetch or its exception.  A redirect with a Location gives
\* Response.redirect(createProxyUrl(newUrl, targetUrl), response.status || 302),
\* another response comes back with the new headers
handleProxyRequest_fetched(targetUrl, fetched) ==
    IF ~fetched.ok THEN sw_catch(fetched.val)
    ELSE Let(fetched.val,
             LAMBDA response :
                 IF /\ \/ response.type = "opaqueredirect"
                       \/ response.status \in {301, 302, 303, 307, 308}
                    /\ Get(response.headers, "Location") # ""
                 THEN sw_return("RedirectRewritten",
                                Then(ResolveHref(Get(response.headers, "Location"), targetUrl),
                                     LAMBDA newUrl :
                                         Response_redirect(
                                             createProxyUrl(newUrl, targetUrl),
                                             IF response.status # 0 THEN response.status
                                             ELSE 302)))
                 ELSE sw_return("Responded",
                                StreamResponse(response.body, response.status,
                                               newHeaders(response))))

(***************************************************************************)
(* uv.sw.js: the fetch listener and handleRequest (uv.config.js selects    *)
(* the xor codec for config.decodeUrl).                                    *)
(***************************************************************************)
\* the listener calls event.respondWith(handleRequest(event))
uvsw_intercepts(url) == StartsWith(Pathname(url), Prefix)

\* a catch block that drops the message of the exception
uvsw_catch_noMessage(message) ==
    [terminal |-> "Failed",
     response |-> TextResponse("Proxy Error", 500,
                               {[name |-> "Content-Type", value |-> "text/plain"]})]

\* the catch block of handleRequest
uvsw_catch(message) ==
    [terminal |-> "Failed",
     response |-> TextResponse("Proxy Error: " \o message, 500,
                               {[name |-> "Content-Type", value |-> "text/plain"]})]

\* fetch(event.request.url, {method, headers: new Headers(event.request.headers), body, ...})
uvsw_request(request) ==
    [url |-> request.url, method |-> request.method, headers |-> Entries(request.headers),
     body |-> IF request.method # "GET" /\ request.method # "HEAD" THEN request.body
              ELSE Undefined]

\* a handler that calls fetch whatever config.decodeUrl did
handleRequest_try_unguarded(request, decodedUrl) ==
    [phases |-> <<"Received", "Decoded", "Forwarded">>, target |-> decodedUrl,
     sent |-> uvsw_request(request), fetches |-> 1, response |-> None]

\* the try block up to await fetch(...): decodedUrl is what config.decodeUrl
\* returned or threw
handleRequest_try(request, decodedUrl) ==
    IF ~decodedUrl.ok
    THEN [phases |-> <<"Received", "Failed">>, target |-> decodedUrl, sent |-> NoRequest,
          fetches |-> 0, response |-> uvsw_catch(decodedUrl.val).response]
    ELSE [phases |-> <<"Received", "Decoded", "Forwarded">>, target |-> decodedUrl,
          sent |-> uvsw_request(request), fetches |-> 1, response |-> None]

\* handleRequest up to await fetch(...)
handleRequest(request, url) ==
    Let(SliceFrom(Pathname(url), Len(Prefix)),
        LAMBDA encodedUrl :
            IF encodedUrl = ""
            THEN [phases |-> <<"Received", "Failed">>, target |-> None, sent |-> NoRequest,
                  fetches |-> 0, response |-> TextResponse("No URL specified", 400, {})]
            ELSE handleRequest_try(request, xor_decode(encodedUrl)))

\* handleRequest from await fetch(...) on
handleRequest_fetched(fetched) ==
    IF ~fetched.ok THEN uvsw_catch(fetched.val)
    ELSE [terminal |-> "Responded", response |-> fetched.val]

(***************************************************************************)
(* uv.bundle.js: HookEvent and the overrides that UVClient installs.  The  *)
(* arguments of a call are a sequence; event.data is the sequence of the   *)
(* values of its properties, in the order of the wrapper's destructuring.  *)
(***************************************************************************)
\* the wrappers: the least number of arguments for which a HookEvent is
\* made, the properties of event.data, and whether the wrapper hands the
\* arguments after them (...rest) to the original
Overrides ==
    [name \in {"fetch", "open", "setAttribute", "getAttribute", "pushState", "replaceState",
               "postMessage", "sendBeacon", "createObjectURL", "revokeObjectURL", "Worker",
               "WebSocket", "EventSource", "setProperty", "getPropertyValue"} |->
        CASE name = "fetch" -> [min |-> 1, data |-> <<"input", "init">>, rest |-> FALSE]
          [] name = "open" -> [min |-> 2, data |-> <<"method", "input">>, rest |-> TRUE]
          [] name = "setAttribute" -> [min |-> 2, data |-> <<"name", "value">>, rest |-> FALSE]
          [] name = "getAttribute" -> [min |-> 1, data |-> <<"name">>, rest |-> FALSE]
          [] name \in {"pushState", "replaceState"}
             -> [min |-> 3, data |-> <<"state", "title", "url">>, rest |-> FALSE]
          [] name = "postMessage"
             -> [min |-> 1, data |-> <<"message", "origin", "transfer">>, rest |-> FALSE]
          [] name = "sendBeacon" -> [min |-> 1, data |-> <<"url", "data">>, rest |-> FALSE]
          [] name = "createObjectURL" -> [min |-> 1, data |-> <<"object">>, rest |-> FALSE]
          [] name = "revokeObjectURL" -> [min |-> 1, data |-> <<"url">>, rest |-> FALSE]
          [] name \in {"Worker", "EventSource"}
             -> [min |-> 1, data |-> <<"url", "options">>, rest |-> FALSE]
          [] name = "WebSocket" -> [min |-> 1, data |-> <<"url", "protocols">>, rest |-> FALSE]
          [] name = "setProperty"
             -> [min |-> 2, data |-> <<"property", "value", "priority">>, rest |-> FALSE]
          [] name = "getPropertyValue" -> [min |-> 1, data |-> <<"property">>, rest |-> FALSE]]

\* new HookEvent(data, target, that)
HookEvent(data) == [data |-> data, intercepted |-> FALSE, returnValue |-> Undefined]

\* HookEvent.respondWith
respondWith(ev, value) == [ev EXCEPT !.intercepted = TRUE, !.returnValue = value]

\* let [a, b, ...] = args: the properties of event.data, undefined for an
\* argument that was not given
Destructured(name, arguments) ==
    SubSeq(arguments \o <<Undefined, Undefined, Undefined>>, 1, Len(Overrides[name].data))

\* target.apply(that, args), target.call(that, ...), new target(...): what
\* the original primitive returns for its arguments
Original(name, arguments) == [original |-> name, arguments |-> arguments]

\* a wrapper that destructures the arguments before its test of their
\* number, and hands the destructured ones to the original
wrapper_short_destructured(name, arguments) ==
    [calls |-> <<Destructured(name, arguments)>>,
     result |-> Ok(Original(name, Destructured(name, arguments)))]

\* the wrapper below its least number of arguments
wrapper_short(name, arguments) ==
    [calls |-> <<arguments>>, result |-> Ok(Original(name, arguments))]

\* the wrapper once emit returned: the value of respondWith, or the
\* original called with the properties of event.data
wrapper_emitted(name, arguments, ev) ==
    IF ev.intercepted THEN [calls |-> <<>>, result |-> Ok(ev.returnValue)]
    ELSE Let(ev.data \o (IF Overrides[name].rest
                         THEN SubSeq(arguments, Len(ev.data) + 1, Len(arguments))
                         ELSE <<>>),
             LAMBDA forwarded :
                 [calls |-> <<forwarded>>, result |-> Ok(Original(name, forwarded))])

\* fn.apply(this, args) for a listener fn of the event: the listeners of the
\* model leave the event alone, rewrite the first property of event.data,
\* call respondWith, or throw
Listen(fn, ev) ==
    CASE fn = "leave" -> Ok(ev)
      [] fn = "rewrite" -> Ok([ev EXCEPT !.data[1] = "rewritten(" \o @ \o ")"])
      [] fn = "respondWith(v)" -> Ok(respondWith(ev, "v"))
      [] fn = "respondWith(w)" -> Ok(respondWith(ev, "w"))
      [] fn = "throw" -> Throw("listener error")

(***************************************************************************)
(* uv.client.js: the overrides of window.fetch and of                      *)
(* XMLHttpRequest.prototype.open.  An input of fetch is [type, url, used]: *)
(* a string, a URL or a Request (used: its body was read, so that          *)
(* new Request(url, input) throws a TypeError).                            *)
(***************************************************************************)
\* CONFIG.url
ORIGINAL_URL == "https://example.com/dir/page.html"

\* window.fetch = function(input, init = {})
client_fetch(input, init) ==
    Let(IF init = Undefined THEN "{}" ELSE init,
        LAMBDA init0 :
            IF input.type \in {"string", "URL"} /\ resolveAndEncode(input.url, ORIGINAL_URL) # ""
            THEN [calls |-> <<<<[type |-> "string",
                                 url |-> resolveAndEncode(input.url, ORIGINAL_URL),
                                 used |-> FALSE], init0>>>>,
                  result |-> Ok("originalFetch")]
            ELSE IF input.type = "Request" /\ ~input.used
            THEN [calls |-> <<<<[input EXCEPT
                                    !.url = ResolveHref(resolveAndEncode(input.url, ORIGINAL_URL),
                                                        LocationHref(ORIGINAL_URL)).val],
                                init0>>>>,
                  result |-> Ok("originalFetch")]
            ELSE [calls |-> <<<<input, init0>>>>, result |-> Ok("originalFetch")])

\* XMLHttpRequest.prototype.open = function(method, url, ...args)
client_open(method, url, rest) ==
    [calls |-> <<<<method, resolveAndEncode(url, ORIGINAL_URL)>> \o rest>>,
     result |-> Ok("originalXHROpen")]

(***************************************************************************)
(* uv.handler.js: the listener of 'request' of client.fetch, under the     *)
(* wrapper of FetchHook.override.  An input is [type, url, used, method,   *)
(* headers, body], a string having its text in url; an init is             *)
(* [undefined, headers, credentials], undefined for an argument not given. *)
(***************************************************************************)
\* a string as an input of fetch
StringInput(url) ==
    [type |-> "string", url |-> url, used |-> FALSE, method |-> Undefined,
     headers |-> Undefined, body |-> Undefined]

\* client.fetch.on('request', (event) => ...): event.data after the listener
handler_fetch_request(data, source) ==
    Let(IF data[2].undefined THEN [undefined |-> FALSE, headers |-> Undefined,
                                   credentials |-> Undefined]
        ELSE data[2],
        LAMBDA init :
            <<StringInput(handler_rewriteUrl(data[1].url, source, source)),
              IF init.headers \in {Undefined, ""} THEN [init EXCEPT !.headers = "{}"] ELSE init>>)

\* the wrapper of FetchHook.override with the listener of the handler: the
\* calls of the original fetch
handler_fetch(input, init, source) ==
    wrapper_emitted("fetch", <<input, init>>,
                    [HookEvent(<<input, init>>) EXCEPT
                        !.data = handler_fetch_request(@, source)]).calls

(***************************************************************************)
(* uv.bundle.js: the cookies a context sees.  A cookie is a record of its  *)
(* name, value, domain, path, secure and httpOnly; a domain or a path that *)
(* is absent is "".                                                        *)
(***************************************************************************)
\* String.prototype.endsWith
EndsWith(s, p) == Len(p) <= Len(s) /\ SubSeq(s, Len(s) - Len(p) + 1, Len(s)) = p

\* URL.prototype.hostname
Hostname(u) == HostPort(u.host).host

\* validateCookie without its test of the path
validateCookie_anyPath(self, cookie, meta, js) ==
    IF cookie.httpOnly /\ js THEN FALSE
    ELSE Let(ParseURL(IF meta.url # "" THEN meta.url ELSE self.meta.url, Undefined),
             LAMBDA parsed :
                 IF ~parsed.ok THEN FALSE
                 ELSE IF cookie.secure /\ Protocol(parsed.val) = "http:" THEN FALSE
                 ELSE TRUE)

\* Ultraviolet.validateCookie
validateCookie(self, cookie, meta, js) ==
    IF cookie.httpOnly /\ js THEN FALSE
    ELSE Let(ParseURL(IF meta.url # "" THEN meta.url ELSE self.meta.url, Undefined),
             LAMBDA parsed :
                 IF ~parsed.ok THEN FALSE
                 ELSE IF /\ cookie.domain # ""
                         /\ Let(Hostname(parsed.val),
                                LAMBDA hostname :
                                    IF StartsWith(cookie.domain, ".")
                                    THEN /\ ~EndsWith(hostname, SliceFrom(cookie.domain, 1))
                                         /\ hostname # SliceFrom(cookie.domain, 1)
                                    ELSE /\ hostname # cookie.domain
                                         /\ ~EndsWith(hostname, "." \o cookie.domain))
                 THEN FALSE
                 ELSE IF cookie.secure /\ Protocol(parsed.val) = "http:" THEN FALSE
                 ELSE IF cookie.path # "" /\ ~StartsWith(Pathname(parsed.val), cookie.path)
                 THEN FALSE
                 ELSE TRUE)

\* serializeCookies that joins the pairs with ';'
serializeCookies_semicolon(self, cookies, meta, js) ==
    Let(SelectSeq(cookies, LAMBDA c : validateCookie(self, c, meta, js)),
        LAMBDA valid : Join([i \in 1..Len(valid) |-> valid[i].name \o "=" \o valid[i].value],
                            ";"))

\* Ultraviolet.serializeCookies
serializeCookies(self, cookies, meta, js) ==
    Let(SelectSeq(cookies, LAMBDA c : validateCookie(self, c, meta, js)),
        LAMBDA valid : Join([i \in 1..Len(valid) |-> valid[i].name \o "=" \o valid[i].value],
                            "; "))

(***************************************************************************)
(* uv.handler.js and uv.client.js: srcset lists.  uv.source and            *)
(* ORIGINAL_URL are the URL of the page.                                   *)
(***************************************************************************)
\* String.prototype.split(/\s+/) of a trimmed string
SplitSpaces(s) ==
    Let(SelectSeq(Split(s, " "), LAMBDA t : t # ""),
        LAMBDA parts : IF parts = <<>> THEN <<"">> ELSE parts)

\* rewriteSrcset of the handler that joins the candidates with ','
handler_rewriteSrcset_comma(srcset) ==
    IF srcset = "" THEN srcset
    ELSE Let(Split(srcset, ","),
             LAMBDA srcs :
                 Join([i \in 1..Len(srcs) |->
                          Let(SplitSpaces(Trim(srcs[i])),
                              LAMBDA parts :
                                  Join(<<handler_rewriteUrl(parts[1], ORIGINAL_URL,
                                                            ORIGINAL_URL)>> \o Tail(parts),
                                       " "))],
                      ","))

\* uv.handler.js rewriteSrcset
handler_rewriteSrcset(srcset) ==
    IF srcset = "" THEN srcset
    ELSE Let(Split(srcset, ","),
             LAMBDA srcs :
                 Join([i \in 1..Len(srcs) |->
                          Let(SplitSpaces(Trim(srcs[i])),
                              LAMBDA parts :
                                  Join(<<handler_rewriteUrl(parts[1], ORIGINAL_URL,
                                                            ORIGINAL_URL)>> \o Tail(parts),
                                       " "))],
                      ", "))

\* uv.client.js rewriteSrcset: spaceIdx is the place of the last ' ' of
\* the part, counted from 1 (0: none)
client_rewriteSrcset(srcset) ==
    Let(Split(srcset, ","),
        LAMBDA parts :
            Join([i \in 1..Len(parts) |->
                     Let(Trim(parts[i]),
                         LAMBDA part :
                             Let(LastIndexOf(part, " "),
                                 LAMBDA spaceIdx :
                                     IF spaceIdx > 1
                                     THEN resolveAndEncode(Trim(SubSeq(part, 1, spaceIdx - 1)),
                                                           ORIGINAL_URL)
                                          \o " " \o Trim(SubSeq(part, spaceIdx, Len(part)))
                                     ELSE resolveAndEncode(part, ORIGINAL_URL)))],
                 ", "))

(***************************************************************************)
(* uv.bundle.js, uv.handler.js and sw.js: url() and @import of CSS text.   *)
(* A match of a regular expression at the place i of s is [ok, last,       *)
(* quote, url]: last is the place of its last character.  White space is   *)
(* the space.                                                              *)
(***************************************************************************)
\* s.substring(a - 1, b)
Slice(s, a, b) == IF a > Len(s) \/ b < a THEN "" ELSE SubSeq(s, a, IF b > Len(s) THEN Len(s) ELSE b)

\* the first place from i on whose character is in cs (member) or is not
\* in cs (~member); Len(s) + 1 if none
Span(s, i, cs, member) ==
    IF \E j \in i..Len(s) : (At(s, j) \in cs) = member
    THEN CHOOSE j \in i..Len(s) :
             /\ (At(s, j) \in cs) = member
             /\ \A k \in i..(j - 1) : (At(s, k) \in cs) # member
    ELSE Len(s) + 1

NoMatch == [ok |-> FALSE, last |-> 0, quote |-> "", url |-> ""]

\* /url\(['"]?(.+?)['"]?\)/gm from the first character b of the url on:
\* the shortest url that a ')' or a quote and a ')' follows
bundle_urlFrom(s, b) ==
    Let({e \in (b + 1)..Len(s) :
            \/ At(s, e) = ")"
            \/ At(s, e) \in {"'", "\""} /\ Slice(s, e + 1, e + 1) = ")"},
        LAMBDA ends :
            IF ends = {} THEN NoMatch
            ELSE Let(CHOOSE e \in ends : \A f \in ends : e <= f,
                     LAMBDA e : [ok |-> TRUE, last |-> IF At(s, e) = ")" THEN e ELSE e + 1,
                                 quote |-> "", url |-> SubSeq(s, b, e - 1)]))

\* /url\(['"]?(.+?)['"]?\)/gm: the url after the quote that follows "url(",
\* or from that quote on when this does not match
bundle_urlMatch(s, i) ==
    IF Slice(s, i, i + 3) # "url(" THEN NoMatch
    ELSE IF Slice(s, i + 4, i + 4) \in {"'", "\""} /\ bundle_urlFrom(s, i + 5).ok
    THEN bundle_urlFrom(s, i + 5)
    ELSE bundle_urlFrom(s, i + 4)

\* /url\s*\(\s*(['"]?)([^'")]+)\1\s*\)/gi: p is the place of '(', a the
\* place after the spaces that follow it, e the place after the url
handler_urlMatch(s, i) ==
    IF ToLowerCase(Slice(s, i, i + 2)) # "url" THEN NoMatch
    ELSE Let(Span(s, i + 3, {" "}, FALSE),
        LAMBDA p :
            IF Slice(s, p, p) # "(" THEN NoMatch
            ELSE Let(Span(s, p + 1, {" "}, FALSE),
                LAMBDA a :
                    Let(IF Slice(s, a, a) \in {"'", "\""} THEN Slice(s, a, a) ELSE "",
                        LAMBDA quote :
                            Let(Span(s, a + Len(quote), {"'", "\"", ")"}, TRUE),
                                LAMBDA e :
                                    IF quote = ""
                                    THEN IF Slice(s, e, e) # ")" THEN NoMatch
                                         ELSE IF e > a
                                         THEN [ok |-> TRUE, last |-> e, quote |-> "",
                                               url |-> SubSeq(s, a, e - 1)]
                                         ELSE IF a > p + 1
                                         THEN [ok |-> TRUE, last |-> e, quote |-> "",
                                               url |-> " "]
                                         ELSE NoMatch
                                    ELSE Let(Span(s, e + 1, {" "}, FALSE),
                                             LAMBDA close :
                                                 IF /\ e > a + 1
                                                    /\ Slice(s, e, e) = quote
                                                    /\ Slice(s, close, close) = ")"
                                                 THEN [ok |-> TRUE, last |-> close,
                                                       quote |-> quote,
                                                       url |-> SubSeq(s, a + 1, e - 1)]
                                                 ELSE NoMatch)))))

\* /url\((['"]?)([^'"()]+)\1\)/gi
sw_urlMatch(s, i) ==
    IF ToLowerCase(Slice(s, i, i + 3)) # "url(" THEN NoMatch
    ELSE Let(IF Slice(s, i + 4, i + 4) \in {"'", "\""} THEN Slice(s, i + 4, i + 4) ELSE "",
        LAMBDA quote :
            Let(Span(s, i + 4 + Len(quote), {"'", "\"", "(", ")"}, TRUE),
                LAMBDA e :
                    IF /\ e > i + 4 + Len(quote)
                       /\ Slice(s, e, e + Len(quote)) = quote \o ")"
                    THEN [ok |-> TRUE, last |-> e + Len(quote), quote |-> quote,
                          url |-> SubSeq(s, i + 4 + Len(quote), e - 1)]
                    ELSE NoMatch))

\* /@import\s+(['"])([^'"]+)\1/gi
sw_importMatch(s, i) ==
    IF ToLowerCase(Slice(s, i, i + 6)) # "@import" THEN NoMatch
    ELSE Let(Span(s, i + 7, {" "}, FALSE),
        LAMBDA a :
            Let(Span(s, a + 1, {"'", "\""}, TRUE),
                LAMBDA e :
                    IF /\ a > i + 7
                       /\ Slice(s, a, a) \in {"'", "\""}
                       /\ e > a + 1
                       /\ Slice(s, e, e) = Slice(s, a, a)
                    THEN [ok |-> TRUE, last |-> e, quote |-> Slice(s, a, a),
                          url |-> SubSeq(s, a + 1, e - 1)]
                    ELSE NoMatch))

\* this.meta of the Ultraviolet instance of the page
PageMeta == [base |-> "", url |-> ORIGINAL_URL, origin |-> LocationOrigin]

\* the match of the regular expression of a function at the place i
CssMatch(regex, css, i) ==
    CASE regex = "bundle.url" -> bundle_urlMatch(css, i)
      [] regex = "handler.url" -> handler_urlMatch(css, i)
      [] regex = "sw.url" -> sw_urlMatch(css, i)
      [] regex = "sw.import" -> sw_importMatch(css, i)

\* css.replace(regex, callback) from the place i on: the text up to the
\* next match, what the callback of the function returns for the match,
\* and the same for what follows it; base is uv.source in the handler and
\* baseUrl in sw.js
RECURSIVE ReplaceMatches(_, _, _, _)
ReplaceMatches(regex, css, base, i) ==
    Let({j \in i..Len(css) : CssMatch(regex, css, j).ok},
        LAMBDA starts :
            IF starts = {} THEN Slice(css, i, Len(css))
            ELSE Let(CHOOSE j \in starts : \A k \in starts : j <= k,
                LAMBDA j :
                    Let(CssMatch(regex, css, j),
                        LAMBDA m :
                            Slice(css, i, j - 1)
                            \o (CASE regex = "bundle.url"
                                  -> IF StartsWith(m.url, "data:") \/ StartsWith(m.url, "#")
                                     THEN SubSeq(css, j, m.last)
                                     ELSE "url(\""
                                          \o rewriteUrl(Str(SelectSeq(Codes(Trim(m.url)),
                                                            LAMBDA n : n \notin {34, 39})),
                                                        PageMeta, "xor")
                                          \o "\")"
                                 [] regex = "handler.url"
                                  -> IF StartsWith(m.url, "data:") THEN SubSeq(css, j, m.last)
                                     ELSE "url(" \o m.quote
                                          \o handler_rewriteUrl(Trim(m.url), base, base)
                                          \o m.quote \o ")"
                                 [] regex = "sw.url"
                                  -> IF StartsWith(m.url, "data:") THEN SubSeq(css, j, m.last)
                                     ELSE "url(" \o m.quote
                                          \o createProxyUrl(Trim(m.url), base)
                                          \o m.quote \o ")"
                                 [] regex = "sw.import"
                                  -> "@import " \o m.quote
                                     \o createProxyUrl(Trim(m.url), base) \o m.quote)
                            \o ReplaceMatches(regex, css, base, m.last + 1))))

\* Ultraviolet.rewriteCSS
rewriteCSS(css) == IF css = "" THEN css ELSE ReplaceMatches("bundle.url", css, "", 1)

\* uv.handler.js rewriteCssUrls; source is uv.source
rewriteCssUrls(css, source) ==
    IF css = "" THEN css ELSE ReplaceMatches("handler.url", css, source, 1)

\* sw.js rewriteCss
rewriteCss(css, baseUrl) ==
    ReplaceMatches("sw.import", ReplaceMatches("sw.url", css, baseUrl, 1), baseUrl, 1)

(***************************************************************************)
(* Attributes: Ultraviolet.attrs of uv.bundle.js, the setAttribute         *)
(* listener of uv.handler.js and Element.prototype.setAttribute of         *)
(* uv.client.js.                                                           *)
(***************************************************************************)
\* Ultraviolet.isUrlAttr (attrs.isUrl)
isUrlAttr(name, tag) ==
    \/ tag = "object" /\ ToLowerCase(name) = "data"
    \/ ToLowerCase(name) \in {"src", "href", "action", "poster", "background", "ping", "movie",
                              "profile", "data", "formaction", "icon", "manifest", "codebase",
                              "cite", "archive", "longdesc", "usemap"}

\* Ultraviolet.attrs.isForbidden
isForbidden(name) ==
    ToLowerCase(name) \in {"http-equiv", "integrity", "sandbox", "nonce", "crossorigin"}

\* uv.handler.js urlAttrs
urlAttrs == {"href", "src", "action", "poster", "data", "background", "cite", "formaction"}

\* the listener of 'setAttribute' of uv.handler.js: event.data.value after
\* it; source is uv.source
handler_setAttribute(name, value, source) ==
    IF ToLowerCase(name) \in urlAttrs /\ value # "" THEN handler_rewriteUrl(value, source, source)
    ELSE IF ToLowerCase(name) = "style" /\ value # "" THEN rewriteCssUrls(value, source)
    ELSE IF ToLowerCase(name) = "srcset" /\ value # "" THEN handler_rewriteSrcset(value)
    ELSE value

\* uv.client.js urlAttributes
urlAttributes == {"href", "src", "action", "data", "poster", "srcset", "formaction"}

\* Element.prototype.setAttribute of uv.client.js: the value that
\* originalSetAttribute is called with
client_setAttribute(name, value) ==
    IF ToLowerCase(name) \in urlAttributes /\ client_shouldProxy(value)
    THEN IF ToLowerCase(name) = "srcset" THEN client_rewriteSrcset(value)
         ELSE resolveAndEncode(value, ORIGINAL_URL)
    ELSE value

(***************************************************************************)
(* postMessage: the listener of uv.handler.js and window.postMessage of    *)
(* uv.client.js.                                                           *)
(***************************************************************************)
\* CONFIG.origin of uv.client.js: the origin of the page
ORIGINAL_ORIGIN == "https://example.com"

\* the listener of 'postMessage' of uv.handler.js: the event after it;
\* source is uv.source
handler_postMessage(ev, source) ==
    IF ev.data[2] \notin {Undefined, "", "*"}
    THEN [ev EXCEPT !.data[2] = handler_rewriteUrl(@, source, source)]
    ELSE ev

\* window.postMessage of uv.client.js: the arguments that
\* originalPostMessage is called with
client_postMessage(message, targetOrigin, transfer) ==
    <<message, IF targetOrigin = ORIGINAL_ORIGIN THEN LocationOrigin ELSE targetOrigin, transfer>>

(***************************************************************************)
(* The synthetic location: LocationHook.emulate of uv.bundle.js with the   *)
(* parse and wrap callbacks of uv.handler.js, and locationHandler of       *)
(* uv.client.js.  location is the real Location, [href, hash]; what a      *)
(* navigation does is the sequence of the calls [op, url] that reach it.   *)
(***************************************************************************)
\* URL.prototype.port
Port(u) == HostPort(u.host).port

\* URL.prototype.hash
Hash(u) == IF u.hash = "#" THEN "" ELSE u.hash

\* the properties of a URL object: prop in parsed
URLProps ==
    {"href", "origin", "protocol", "username", "password", "host", "hostname", "port",
     "pathname", "search", "searchParams", "hash", "toString", "toJSON"}

\* parsed[prop]
URLGet(parsed, prop) ==
    CASE prop = "href" -> Href(parsed)
      [] prop = "origin" -> Origin(parsed)
      [] prop = "protocol" -> Protocol(parsed)
      [] prop = "host" -> Host(parsed)
      [] prop = "hostname" -> Hostname(parsed)
      [] prop = "port" -> Port(parsed)
      [] prop = "pathname" -> Pathname(parsed)
      [] prop = "search" -> Search(parsed)
      [] prop = "hash" -> Hash(parsed)
      [] prop \in {"username", "password"} -> ""
      [] OTHER -> "[object]"

\* the real location of the page that the handler runs in, with the
\* fragment frag
handler_location(source, frag) == [href |-> LocationHref(source) \o frag, hash |-> frag]

\* the real location of the page that uv.client.js runs in
client_location(frag) ==
    [href |-> LocationOrigin \o client_encodeUrl(ORIGINAL_URL) \o frag, hash |-> frag]

\* the parse callback: new URL(sourceUrl(href)), new URL(href) in the catch
\* block
fakeLocation_parse(href, source) ==
    Let(ParseURL(handler_sourceUrl(href, source), Undefined),
        LAMBDA parsed : IF parsed.ok THEN parsed ELSE ParseURL(href, Undefined))

\* the wrap callback
fakeLocation_wrap(url, source) == handler_rewriteUrl(url, source, source)

\* the get trap: a component of parse(location.href), or the property of
\* the real location (a function is bound to it)
LocationHook_get(location, prop, source) ==
    Then(fakeLocation_parse(location.href, source),
         LAMBDA parsed : IF prop \in URLProps THEN Ok(URLGet(parsed, prop))
                         ELSE Ok("location." \o prop))

\* the set trap
LocationHook_set(location, prop, value, source) ==
    IF prop = "href" THEN <<[op |-> "href", url |-> fakeLocation_wrap(value, source)]>>
    ELSE <<[op |-> prop, url |-> value]>>

\* fakeLocation[method](url): the get trap returns the method of the real
\* location, bound to it
LocationHook_call(location, method, url, source) ==
    IF LocationHook_get(location, method, source) = Ok("location." \o method)
    THEN <<[op |-> method, url |-> url]>>
    ELSE <<>>

\* the getters of locationHandler
locationHandler_get(location, prop) ==
    IF prop = "href" THEN Ok(ORIGINAL_URL)
    ELSE IF prop = "origin" THEN Ok(ORIGINAL_ORIGIN)
    ELSE IF prop = "hash" THEN Ok(location.hash)
    ELSE Then(ParseURL(ORIGINAL_URL, Undefined), LAMBDA parsed : Ok(URLGet(parsed, prop)))

\* set href(value), assign(url) and replace(url) of locationHandler
locationHandler_navigate(op, url) == <<[op |-> op, url |-> resolveAndEncode(url, ORIGINAL_URL)]>>

(***************************************************************************)
(* document.cookie: DocumentHook.overrideCookie of uv.bundle.js with the   *)
(* getCookie and setCookie listeners of uv.handler.js, and the override of *)
(* uv.client.js.  The cookies of the proxy's origin are a sequence of      *)
(* cookies as validateCookie takes them; a setter returns the sequence of  *)
(* the values it handed to the native setter.                              *)
(***************************************************************************)
\* the native getter of document.cookie: the pairs of the cookies that are
\* not HttpOnly
document_cookie(cookies) ==
    Let(SelectSeq(cookies, LAMBDA c : ~c.httpOnly),
        LAMBDA visible : Join([i \in 1..Len(visible) |->
                                  visible[i].name \o "=" \o visible[i].value], "; "))

\* the string a script assigns to document.cookie for the cookie c
CookieString(c) ==
    c.name \o "=" \o c.value
    \o (IF c.domain # "" THEN "; Domain=" \o c.domain ELSE "")
    \o (IF c.path # "" THEN "; Path=" \o c.path ELSE "")
    \o (IF c.secure THEN "; Secure" ELSE "")
    \o (IF c.httpOnly THEN "; HttpOnly" ELSE "")

\* client.document.on('getCookie') and on('setCookie'): new URL(source) in
\* a try block, and the event is left as it is
handler_getCookie(ev, source) == ev

handler_setCookie(ev, source) == ev

\* the get of overrideCookie: the native value in an event, the
\* listeners, then event.data.value
overrideCookie_get(cookies, source) ==
    Let(handler_getCookie(HookEvent(<<document_cookie(cookies)>>), source),
        LAMBDA ev : IF ev.intercepted THEN ev.returnValue ELSE ev.data[1])

\* the set of overrideCookie, called by overrideDescriptor as
\* desc.set(original.set, this, val): its third parameter is the pattern
\* [val], which takes the first character of the string
overrideCookie_set(val, source) ==
    Let(handler_setCookie(HookEvent(<<IF val = "" THEN Undefined ELSE SubSeq(val, 1, 1)>>),
                          source),
        LAMBDA ev : IF ev.intercepted THEN <<>> ELSE <<ev.data[1]>>)

\* the getter and the setter of document.cookie in uv.client.js
client_cookie_get(cookies) == document_cookie(cookies)

client_cookie_set(value) == <<value>>

(***************************************************************************)
(* uv.handler.js: document.domain and document.referrer.  doc is the       *)
(* document: own, the names of the accessors that defineProperty put on    *)
(* the document itself, and referrer, the value of the native accessor of  *)
(* Document.prototype.                                                     *)
(***************************************************************************)
\* the getter of document.domain
handler_domain_get(source) ==
    Catch(Then(ParseURL(source, Undefined), LAMBDA u : Ok(Hostname(u))), "")

RECURSIVE document_get(_, _, _, _)
RECURSIVE handler_referrer_get(_, _, _)

\* document[prop], read while depth calls are in progress: the accessor of
\* the document itself when it has one, or else the accessor of the
\* prototype
document_get(doc, prop, source, depth) ==
    IF prop \notin doc.own THEN Ok(doc.referrer)
    ELSE IF depth >= MaxStack THEN Throw("RangeError: Maximum call stack size exceeded")
    ELSE IF prop = "domain" THEN Ok(handler_domain_get(source))
    ELSE handler_referrer_get(doc, source, depth + 1)

\* the getter of document.referrer: sourceUrl(document.referrer) || ''
handler_referrer_get(doc, source, depth) ==
    Then(document_get(doc, "referrer", source, depth),
         LAMBDA referrer : Ok(OrElse(handler_sourceUrl(referrer, source), "")))

(***************************************************************************)
(* uv.handler.js: rewriteJs and the listener of the construction of a      *)
(* Function.                                                               *)
(***************************************************************************)
\* the characters of \w
WordChars == Letters \cup Digits \cup {"_"}

\* \b before the place i of s: one of the characters at i - 1 and i is a
\* word character and the other is not, or is not there
WordBoundary(s, i) ==
    (i - 1 >= 1 /\ At(s, i - 1) \in WordChars) # (i <= Len(s) /\ At(s, i) \in WordChars)

\* does /\bword\b/ match at the place i of s
WordMatch(s, word, i) ==
    /\ i + Len(word) - 1 <= Len(s)
    /\ SubSeq(s, i, i + Len(word) - 1) = word
    /\ WordBoundary(s, i)
    /\ WordBoundary(s, i + Len(word))

\* s.replace(/\bword\b/g, replacement) from the place i on
RECURSIVE ReplaceWord(_, _, _, _)
ReplaceWord(s, word, replacement, i) ==
    Let({j \in i..Len(s) : WordMatch(s, word, j)},
        LAMBDA starts :
            IF starts = {} THEN Slice(s, i, Len(s))
            ELSE Let(CHOOSE j \in starts : \A k \in starts : j <= k,
                     LAMBDA j : Slice(s, i, j - 1) \o replacement
                                \o ReplaceWord(s, word, replacement, j + Len(word))))

\* rewriteJs: the three replacements, one after the other
rewriteJs(js) ==
    IF js = "" THEN js
    ELSE ReplaceWord(ReplaceWord(ReplaceWord(js, "location", "__uv$location", 1),
                                 "document.location", "__uv$location", 1),
                     "window.location", "__uv$location", 1)

\* client.function.on('construct'): the last argument is the body
handler_construct(args) ==
    IF Len(args) > 0 /\ Includes(args[Len(args)], "location")
    THEN SubSeq(args, 1, Len(args) - 1) \o <<rewriteJs(args[Len(args)])>>
    ELSE args

(***************************************************************************)
(* uv.bundle.js: the EventEmitter of the Ultraviolet class.  A listener of *)
(* this._events[e] is [fn, once, key]: the function that was registered,   *)
(* or for once() the wrapper of it, which key tells from every other       *)
(* wrapper (key is 0 for a function registered with on).                   *)
(***************************************************************************)
\* off: the first place of the listener is spliced out
off(arr, listener) ==
    IF \E i \in 1..Len(arr) : arr[i] = listener
    THEN Let(CHOOSE i \in 1..Len(arr) : arr[i] = listener /\ \A j \in 1..(i - 1) : arr[j] # listener,
             LAMBDA idx : SubSeq(arr, 1, idx - 1) \o SubSeq(arr, idx + 1, Len(arr)))
    ELSE arr

\* forEach from the place k on: the listener at k is called if the array
\* still has that place; a wrapper of once() calls off for itself, then its
\* function.  invoked is the sequence of the listeners called so far
RECURSIVE forEach(_, _, _)
forEach(arr, k, invoked) ==
    IF k > Len(arr) THEN [events |-> arr, invoked |-> invoked]
    ELSE forEach(IF arr[k].once THEN off(arr, arr[k]) ELSE arr, k + 1, Append(invoked, arr[k]))

\* emit
emit(arr) == forEach(arr, 1, <<>>)

(***************************************************************************)
(* uv.client.js: rewriteElement of the MutationObserver.  An element is    *)
(* the function of urlAttributes that gives the value of each attribute,   *)
(* Undefined for one the element does not have.                            *)
(***************************************************************************)
\* the loop over urlAttributes of rewriteElement: the attributes of the
\* element after it
rewriteElement_attributes(element) ==
    [attr \in urlAttributes |->
        IF /\ element[attr] # Undefined
           /\ element[attr] # ""
           /\ client_shouldProxy(element[attr])
           /\ ~StartsWith(element[attr], Prefix)
        THEN IF attr = "srcset" THEN client_rewriteSrcset(element[attr])
             ELSE resolveAndEncode(element[attr], ORIGINAL_URL)
        ELSE element[attr]]

\* rewriteElement(node) for an added node: the node, and each element of
\* node.querySelectorAll('*')
rewriteElement(elements, node, descendants) ==
    [e \in DOMAIN elements |->
        IF e = node \/ e \in descendants THEN rewriteElement_attributes(elements[e])
        ELSE elements[e]]

(***************************************************************************)
(* sw.js: urlMap and the listener of 'message'.  A client is known by      *)
(* event.source.id; urlMap is a function of the ids, Undefined where the   *)
(* Map has no entry.                                                       *)
(***************************************************************************)
\* the ids of the clients of the worker
Clients == {"c1", "c2"}

\* urlMap.set that keeps one entry for all the clients
urlMap_set_shared(map, id, url) == [c \in DOMAIN map |-> url]

\* urlMap.set(id, url)
urlMap_set(map, id, url) == [map EXCEPT ![id] = url]

\* urlMap.get(id)
urlMap_get(map, id) == map[id]

(***************************************************************************)
(* State.                                                                  *)
(***************************************************************************)
VARIABLES
    \* a codec applied to a string and back: where the run is, the codec,
    \* the string, encode's result and decode's result
    cpc, codec, input, token, decoded,
    \* a rewriter applied to a reference: where the run is, the rewriter (and
    \* the codec of the bundle's instance), the context, the reference, the
    \* result of rewriting it, of rewriting the result again, and of
    \* sourceUrl, and the code rewriteJS was called with while raw was
    \* rewritten
    rpc, impl, rcodec, ctx, raw, rewritten, rewrittenTwice, sourced, jsCalls,
    \* a request at a service worker: where the handler is, the worker, the
    \* request of the fetch event, the states of the request so far, the
    \* decoded target, the request handed to fetch, the number of calls of
    \* fetch, what fetch returned or threw, the response given to
    \* respondWith
    epc, worker, req, phases, target, sent, execCalls, upstream, outcome,
    \* a call of an overridden primitive of the page: where the call is, the
    \* override, the arguments of the caller, the listeners of the hook's
    \* event, the HookEvent (None before it is created), the number of
    \* listeners that ran, the argument lists the original primitive was
    \* invoked with, what the call returned or threw
    hpc, hook, args, listeners, event, ran, calls, result,
    \* a call of a function of the page or of the worker that keeps no
    \* state: where the run is, the function with its arguments, what it
    \* returned
    ppc, call, ret,
    \* the messages between the pages and the service worker of sw.js: urlMap
    \* of the worker, the messages each client posted that the worker has not
    \* received yet, the messages each client received from the worker, the
    \* messages the worker received so far with their source, the number of
    \* messages posted
    urlMap, channel, replies, received, posted,
    \* an EventEmitter of uv.bundle.js: the listeners of this._events[e] for
    \* one event e, the emissions so far (the listeners that were registered
    \* when emit was called, and those emit invoked), the number of calls
    \* of on, once, off and emit so far
    events, emitted, steps,
    \* the elements of a page of uv.client.js: the value of each URL
    \* attribute of each element (Undefined: the element has no such
    \* attribute), the value that the markup or the caller of setAttribute
    \* gave it, whether the elements were inserted into the document, the
    \* number of calls of setAttribute so far
    dom, written, inserted, domSteps

codecVars == <<cpc, codec, input, token, decoded>>

rewriteVars == <<rpc, impl, rcodec, ctx, raw, rewritten, rewrittenTwice, sourced, jsCalls>>

edgeVars == <<epc, worker, req, phases, target, sent, execCalls, upstream, outcome>>

hookVars == <<hpc, hook, args, listeners, event, ran, calls, result>>

pageVars == <<ppc, call, ret>>

msgVars == <<urlMap, channel, replies, received, posted>>

emitVars == <<events, emitted, steps>>

domVars == <<dom, written, inserted, domSteps>>

vars == <<codecVars, rewriteVars, edgeVars, hookVars, pageVars, msgVars, emitVars, domVars>>

\* the states in which a part of the model is not used
CodecIdle ==
    /\ cpc = "idle"
    /\ codec = "none"
    /\ input = ""
    /\ token = None
    /\ decoded = None

RewriteIdle ==
    /\ rpc = "idle"
    /\ impl = "bundle"
    /\ rcodec = "none"
    /\ ctx = [base |-> "", url |-> "", origin |-> ""]
    /\ raw = ""
    /\ rewritten = None
    /\ rewrittenTwice = None
    /\ sourced = None
    /\ jsCalls = <<>>

EdgeIdle ==
    /\ epc = "idle"
    /\ worker = "sw"
    /\ req = NoRequest
    /\ phases = <<>>
    /\ target = None
    /\ sent = NoRequest
    /\ execCalls = 0
    /\ upstream = None
    /\ outcome = None

HookIdle ==
    /\ hpc = "idle"
    /\ hook = "fetch"
    /\ args = <<>>
    /\ listeners = <<>>
    /\ event = None
    /\ ran = 0
    /\ calls = <<>>
    /\ result = None

PageIdle ==
    /\ ppc = "idle"
    /\ call = [fn |-> "none"]
    /\ ret = None

\* const urlMap = new Map(), and no message yet
MsgIdle ==
    /\ urlMap = [c \in Clients |-> Undefined]
    /\ channel = [c \in Clients |-> <<>>]
    /\ replies = [c \in Clients |-> <<>>]
    /\ received = <<>>
    /\ posted = 0

\* this._events = {} and no call yet
EmitIdle ==
    /\ events = <<>>
    /\ emitted = <<>>
    /\ steps = 0

\* no element
DomIdle ==
    /\ dom = <<>>
    /\ written = <<>>
    /\ inserted = FALSE
    /\ domSteps = 0

(***************************************************************************)
(* SpecCodec: a codec of Ultraviolet.codec encodes a string and decodes    *)
(* the token.                                                              *)
(***************************************************************************)
RECURSIVE StringsOver(_, _)
StringsOver(alphabet, n) ==
    IF n = 0 THEN {""}
    ELSE LET shorter == StringsOver(alphabet, n - 1)
         IN  shorter \cup {s \o c : s \in shorter, c \in alphabet}

\* the strings are of URL-legal characters: unreserved ones, reserved ones,
\* the escape character, and the ones the xor pass and base64 treat
\* specially
CodecInit ==
    /\ cpc = "start"
    /\ codec \in Codecs
    /\ input \in StringsOver({"a", "b", "/", ":", "%", "~", "?"}, MaxLen)
    /\ token = None
    /\ decoded = None
    /\ RewriteIdle
    /\ EdgeIdle
    /\ HookIdle
    /\ PageIdle
    /\ MsgIdle
    /\ EmitIdle
    /\ DomIdle

\* token = Ultraviolet.codec[codec].encode(input)
Encode ==
    /\ cpc = "start"
    /\ token' = CodecEncode(codec, input)
    /\ cpc' = "encoded"
    /\ UNCHANGED <<codec, input, decoded, rewriteVars, edgeVars, hookVars, pageVars, msgVars, emitVars, domVars>>

\* decoded = Ultraviolet.codec[codec].decode(token)
Decode ==
    /\ cpc = "encoded"
    /\ token.ok
    /\ decoded' = CodecDecode(codec, token.val)
    /\ cpc' = "decoded"
    /\ UNCHANGED <<codec, input, token, rewriteVars, edgeVars, hookVars, pageVars, msgVars, emitVars, domVars>>

CodecNext == Encode \/ Decode

SpecCodec == CodecInit /\ [][CodecNext]_vars

(***************************************************************************)
(* SpecToken: a codec of uv.bundle.js, or encodeUrl and decodeUrl of sw.js *)
(* ("sw"), encodes a string and decodes the token, or decodes the string   *)
(* as a token.                                                             *)
(***************************************************************************)
TokenInit ==
    /\ cpc = "start"
    /\ codec \in Codecs \cup {"sw"}
    /\ input \in StringsOver({"a", "b", "/", ":", "%", "~", "?"}, MaxLen)
                  \cup {"https://example.com/a?b=1"}
    /\ token = None
    /\ decoded = None
    /\ RewriteIdle
    /\ EdgeIdle
    /\ HookIdle
    /\ PageIdle
    /\ MsgIdle
    /\ EmitIdle
    /\ DomIdle

\* token = encode(input), or encodeUrl(input)
TokenEncode ==
    /\ cpc = "start"
    /\ token' = IF codec = "sw" THEN Ok(sw_encodeUrl(input)) ELSE CodecEncode(codec, input)
    /\ cpc' = "encoded"
    /\ UNCHANGED <<codec, input, decoded, rewriteVars, edgeVars, hookVars, pageVars, msgVars, emitVars, domVars>>

\* decoded = decode(token), or decodeUrl(token)
TokenDecode ==
    /\ cpc = "encoded"
    /\ token.ok
    /\ decoded' = IF codec = "sw" THEN sw_decodeUrl(token.val) ELSE CodecDecode(codec, token.val)
    /\ cpc' = "decoded"
    /\ UNCHANGED <<codec, input, token, rewriteVars, edgeVars, hookVars, pageVars, msgVars, emitVars, domVars>>

\* decoded = decode(input), or decodeUrl(input): the string is the token of
\* a request
TokenDecodeRaw ==
    /\ cpc = "start"
    /\ decoded' = IF codec = "sw" THEN sw_decodeUrl(input) ELSE CodecDecode(codec, input)
    /\ cpc' = "rawDecoded"
    /\ UNCHANGED <<codec, input, token, rewriteVars, edgeVars, hookVars, pageVars, msgVars, emitVars, domVars>>

TokenNext == TokenEncode \/ TokenDecode \/ TokenDecodeRaw

SpecToken == TokenInit /\ [][TokenNext]_vars

(***************************************************************************)
(* SpecRewrite: one of the four URL rewriters rewrites a reference, then   *)
(* rewrites its own result again or hands it to its sourceUrl.             *)
(***************************************************************************)
\* the contexts: the proxied page, with and without a <base>
Contexts ==
    {[base |-> "", url |-> "https://example.com/dir/page.html", origin |-> LocationOrigin],
     [base |-> "", url |-> "http://example.com/old", origin |-> LocationOrigin],
     [base |-> "https://cdn.example.com/assets/", url |-> "https://example.com/dir/page.html",
      origin |-> LocationOrigin]}

\* references starting with a scheme of the skip list of the rewriter
SkipListUrls ==
    {"#top", "data:text/plain,hi", "blob:https://example.com/1", "about:blank",
     "mailto:a@b.com", "tel:123"}

\* absolute URLs, as the URL parser serialises them
AbsoluteUrls ==
    {"https://example.com/a?b=1", "http://example.com/old", "https://example.com/",
     "https://example.com/service/x", "https://cdn.example.com/lib.js#frag"}

\* references: empty, blank, skip-listed, absolute (serialised or not),
\* relative in every form, padded, already proxied, unresolvable
RawUrls ==
    SkipListUrls \cup AbsoluteUrls \cup
    {"", " ", "javascript:void(0)", "https://example.com", "HTTP://Example.com/A",
     "/new", "//cdn.example.com/lib.js", "img/a.png", "../up", "?q=1", " /padded ",
     "/service/abc", "https://proxy.test/service/abc", "http://", " javascript:a=1 "}

\* the rewriter impl applied to url in the context c
Rewrite(i, cdc, c, url) ==
    CASE i = "bundle" -> rewriteUrl(url, c, cdc)
      [] i = "handler" -> handler_rewriteUrl(url, c.url, c.url)
      [] i = "client" -> resolveAndEncode(url, c.url)
      [] i = "sw" -> createProxyUrl(url, c.url)

\* the sourceUrl that goes with the rewriter impl
Source(i, cdc, c, url) ==
    CASE i = "bundle" -> sourceUrl(url, c, cdc)
      [] i = "handler" -> handler_sourceUrl(url, c.url)

\* the rewriters: Ultraviolet.rewriteUrl, the handler's rewriteUrl, the
\* client's resolveAndEncode, the service worker's createProxyUrl
RewriteInit ==
    /\ rpc = "start"
    /\ impl \in {"bundle", "handler", "client", "sw"}
    /\ rcodec \in (IF impl = "bundle" THEN Codecs ELSE IF impl = "handler" THEN {"xor"} ELSE {"base64"})
    /\ ctx \in Contexts
    /\ raw \in RawUrls
    /\ rewritten = None
    /\ rewrittenTwice = None
    /\ sourced = None
    /\ jsCalls = <<>>
    /\ CodecIdle
    /\ EdgeIdle
    /\ HookIdle
    /\ PageIdle
    /\ MsgIdle
    /\ EmitIdle
    /\ DomIdle

\* rewritten = rewriteUrl(raw, ctx)
RewriteOnce ==
    /\ rpc = "start"
    /\ rewritten' = Ok(Rewrite(impl, rcodec, ctx, raw))
    /\ jsCalls' = IF impl = "bundle" THEN rewriteUrl_rewriteJS(raw) ELSE <<>>
    /\ rpc' = "rewritten"
    /\ UNCHANGED <<impl, rcodec, ctx, raw, rewrittenTwice, sourced, codecVars, edgeVars, hookVars, pageVars,
                   msgVars, emitVars, domVars>>

\* rewrittenTwice = rewriteUrl(rewritten, ctx)
RewriteAgain ==
    /\ rpc = "rewritten"
    /\ rewrittenTwice' = Ok(Rewrite(impl, rcodec, ctx, rewritten.val))
    /\ rpc' = "rewrittenTwice"
    /\ UNCHANGED <<impl, rcodec, ctx, raw, rewritten, sourced, jsCalls, codecVars, edgeVars, hookVars, pageVars,
                   msgVars, emitVars, domVars>>

\* sourced = sourceUrl(rewritten, ctx)
SourceRewritten ==
    /\ rpc = "rewritten"
    /\ impl \in {"bundle", "handler"}
    /\ sourced' = Ok(Source(impl, rcodec, ctx, rewritten.val))
    /\ rpc' = "sourced"
    /\ UNCHANGED <<impl, rcodec, ctx, raw, rewritten, rewrittenTwice, jsCalls, codecVars, edgeVars, hookVars, pageVars,
                   msgVars, emitVars, domVars>>

\* sourced = sourceUrl(raw, ctx), of a reference that was not rewritten
SourceRaw ==
    /\ rpc = "start"
    /\ impl \in {"bundle", "handler"}
    /\ sourced' = Ok(Source(impl, rcodec, ctx, raw))
    /\ rpc' = "sourcedRaw"
    /\ UNCHANGED <<impl, rcodec, ctx, raw, rewritten, rewrittenTwice, jsCalls, codecVars, edgeVars, hookVars, pageVars,
                   msgVars, emitVars, domVars>>

RewriteNext == RewriteOnce \/ RewriteAgain \/ SourceRewritten \/ SourceRaw

SpecRewrite == RewriteInit /\ [][RewriteNext]_vars

(***************************************************************************)
(* SpecEdge: a service worker (sw.js or uv.sw.js) receives a fetch event,  *)
(* its handler runs up to its call of fetch, fetch returns a response or   *)
(* throws, and the handler runs to its end.                                *)
(***************************************************************************)
\* paths of requests: the proxy's own, and the prefix with a token (a
\* target in the encoding of each worker, a string that is no URL, tokens
\* that do not decode, no token)
Paths ==
    {Prefix \o tok :
        tok \in {sw_encodeUrl("https://example.com/old"), sw_encodeUrl("not a url"),
                 xor_encode("https://example.com/old").val, "%zz", "a", ""}}
    \cup {"/", "/static/style.css", "/other"}

RequestHeaders ==
    {{},
     {[name |-> "Accept", value |-> "text/html"], [name |-> "Accept-Language", value |-> "en"]},
     {[name |-> "Accept", value |-> "*/*"], [name |-> "Content-Type", value |-> "text/plain"],
      [name |-> "Authorization", value |-> "Bearer t"],
      [name |-> "X-Requested-With", value |-> "XMLHttpRequest"]}}

\* the requests of fetch events
Requests ==
    {[url |-> LocationOrigin \o path \o search, method |-> method, headers |-> headers,
      body |-> IF method = "POST" THEN "a=1" ELSE NullBody] :
        path \in Paths, search \in {"", "?x=1"}, method \in {"GET", "POST"},
        headers \in RequestHeaders}

\* responses of fetch.  Those that are no redirect; then the redirects:
\* every redirect status with a relative and an absolute Location, one
\* without Location, one whose Location does not resolve, and the opaque
\* redirect that fetch returns in manual redirect mode
Responses ==
    {[type |-> "basic", status |-> 200,
      headers |-> {[name |-> "Content-Type", value |-> "text/html"],
                   [name |-> "Content-Security-Policy", value |-> "default-src 'self'"],
                   [name |-> "X-Frame-Options", value |-> "DENY"],
                   [name |-> "Content-Encoding", value |-> "gzip"],
                   [name |-> "X-Custom", value |-> "1"]},
      body |-> "<html>"],
     [type |-> "basic", status |-> 200,
      headers |-> {[name |-> "content-type", value |-> "text/css"],
                   [name |-> "cache-control", value |-> "no-store"]},
      body |-> "a{}"],
     [type |-> "basic", status |-> 404,
      headers |-> {[name |-> "Content-Type", value |-> "text/plain"],
                   [name |-> "x-frame-options", value |-> "SAMEORIGIN"]},
      body |-> "not found"],
     [type |-> "basic", status |-> 500, headers |-> {}, body |-> "boom"],
     [type |-> "basic", status |-> 204, headers |-> {}, body |-> NullBody]}
    \cup
    {[type |-> "basic", status |-> status,
      headers |-> {[name |-> "Location", value |-> location]}, body |-> NullBody] :
        status \in {301, 302, 303, 307, 308},
        location \in {"/new", "https://other.example/x?y=1"}}
    \cup {[type |-> "basic", status |-> 302, headers |-> {}, body |-> NullBody],
          [type |-> "basic", status |-> 302,
           headers |-> {[name |-> "Location", value |-> "http://"]}, body |-> NullBody],
          [type |-> "opaqueredirect", status |-> 0, headers |-> {}, body |-> NullBody]}

\* messages of the exceptions fetch throws
Reasons == {"Failed to fetch", "NetworkError when attempting to fetch resource."}

EdgeInit ==
    /\ epc = "start"
    /\ worker \in {"sw", "uvsw"}
    /\ req \in Requests
    /\ phases = <<>>
    /\ target = None
    /\ sent = NoRequest
    /\ execCalls = 0
    /\ upstream = None
    /\ outcome = None
    /\ CodecIdle
    /\ RewriteIdle
    /\ HookIdle
    /\ PageIdle
    /\ MsgIdle
    /\ EmitIdle
    /\ DomIdle

\* the listener returns without event.respondWith
Pass ==
    /\ epc' = "passed"
    /\ UNCHANGED <<worker, req, phases, target, sent, execCalls, upstream, outcome>>

\* the handler runs up to its call of fetch, or to its end
Begin(step) ==
    /\ phases' = step.phases
    /\ target' = step.target
    /\ sent' = step.sent
    /\ execCalls' = execCalls + step.fetches
    /\ outcome' = step.response
    /\ epc' = IF step.response = None THEN "waiting" ELSE "done"
    /\ UNCHANGED <<worker, req, upstream>>

\* the handler runs from its call of fetch to its end
End(fetched, end) ==
    /\ upstream' = fetched
    /\ phases' = Append(phases, end.terminal)
    /\ outcome' = end.response
    /\ epc' = "done"
    /\ UNCHANGED <<worker, req, target, sent, execCalls>>

\* the fetch listener of sw.js, with the handler up to its call of fetch
sw_fetch ==
    /\ epc = "start"
    /\ worker = "sw"
    /\ \E url \in {ParseURL(req.url, Undefined).val} :
           IF sw_intercepts(url) THEN Begin(handleProxyRequest(req, url)) ELSE Pass
    /\ UNCHANGED <<codecVars, rewriteVars, hookVars, pageVars, msgVars, emitVars, domVars>>

\* the fetch listener of uv.sw.js, with the handler up to its call of fetch
uvsw_fetch ==
    /\ epc = "start"
    /\ worker = "uvsw"
    /\ \E url \in {ParseURL(req.url, Undefined).val} :
           IF uvsw_intercepts(url) THEN Begin(handleRequest(req, url)) ELSE Pass
    /\ UNCHANGED <<codecVars, rewriteVars, hookVars, pageVars, msgVars, emitVars, domVars>>

\* the handler that awaits fetch goes on with what fetch returned or threw
Fetched(fetched) ==
    End(fetched, IF worker = "sw" THEN handleProxyRequest_fetched(target.val, fetched)
                 ELSE handleRequest_fetched(fetched))

ExecutorReturns ==
    /\ epc = "waiting"
    /\ \E response \in Responses : Fetched(Ok(response))
    /\ UNCHANGED <<codecVars, rewriteVars, hookVars, pageVars, msgVars, emitVars, domVars>>

ExecutorThrows ==
    /\ epc = "waiting"
    /\ \E reason \in Reasons : Fetched(Throw(reason))
    /\ UNCHANGED <<codecVars, rewriteVars, hookVars, pageVars, msgVars, emitVars, domVars>>

EdgeNext == sw_fetch \/ uvsw_fetch \/ ExecutorReturns \/ ExecutorThrows

SpecEdge == EdgeInit /\ [][EdgeNext]_vars

(***************************************************************************)
(* SpecHook: the page calls an overridden primitive; the wrapper makes a   *)
(* HookEvent and emits it, the listeners of the event run one after the    *)
(* other, and the wrapper returns.  The overrides of uv.client.js have no  *)
(* listeners.                                                              *)
(***************************************************************************)
\* the arguments of the caller: none to four of them
Arguments == {SubSeq(<<"a", "b", "c", "d">>, 1, n) : n \in 0..4}

\* the listeners registered for the event of the hook: none, one or two
ListenerLists ==
    LET fns == {"leave", "rewrite", "respondWith(v)", "respondWith(w)", "throw"}
    IN  {<<>>} \cup {<<f>> : f \in fns} \cup {<<f, g>> : f \in fns, g \in fns}

\* inputs of fetch: strings, a URL, Requests
ClientInputs ==
    {[type |-> "string", url |-> "/api?x=1", used |-> FALSE],
     [type |-> "string", url |-> "", used |-> FALSE],
     [type |-> "string", url |-> "data:text/plain,hi", used |-> FALSE],
     [type |-> "URL", url |-> "https://example.com/api", used |-> FALSE],
     [type |-> "Request", url |-> "https://example.com/api", used |-> FALSE],
     [type |-> "Request", url |-> "https://example.com/api", used |-> TRUE]}

HookInit ==
    /\ hpc = "start"
    /\ hook \in DOMAIN Overrides \cup {"client.fetch", "client.open"}
    /\ args \in (CASE hook = "client.fetch"
                     -> {<<i>> : i \in ClientInputs} \cup {<<i, "init">> : i \in ClientInputs}
                  [] hook = "client.open"
                     -> {<<"GET", u>> : u \in RawUrls} \cup {<<"POST", "/api", "true">>}
                  [] OTHER -> Arguments)
    /\ listeners \in (IF hook \in DOMAIN Overrides THEN ListenerLists ELSE {<<>>})
    /\ event = None
    /\ ran = 0
    /\ calls = <<>>
    /\ result = None
    /\ CodecIdle
    /\ RewriteIdle
    /\ EdgeIdle
    /\ PageIdle
    /\ MsgIdle
    /\ EmitIdle
    /\ DomIdle

\* the call returns (or throws) r.result after the calls r.calls of the
\* original primitive
HookReturn(r) ==
    /\ calls' = r.calls
    /\ result' = r.result
    /\ hpc' = "returned"

\* the wrapper that UVClient.override installed is called: below the least
\* number of arguments it calls the original; else it makes the HookEvent
\* and emits it, which returns at once when the event has no listener
override_call ==
    /\ hpc = "start"
    /\ hook \in DOMAIN Overrides
    /\ IF Len(args) < Overrides[hook].min
       THEN HookReturn(wrapper_short(hook, args)) /\ UNCHANGED event
       ELSE \E ev \in {HookEvent(Destructured(hook, args))} :
                /\ event' = ev
                /\ IF listeners = <<>> THEN HookReturn(wrapper_emitted(hook, args, ev))
                   ELSE hpc' = "emit" /\ UNCHANGED <<calls, result>>
    /\ UNCHANGED <<hook, args, listeners, ran, codecVars, rewriteVars, edgeVars, pageVars, msgVars, emitVars, domVars>>

\* the next listener of the event runs: its exception leaves emit and the
\* wrapper; after the last listener the wrapper goes on
listener_run ==
    /\ hpc = "emit"
    /\ ran' = ran + 1
    /\ \E r \in {Listen(listeners[ran + 1], event)} :
           IF ~r.ok
           THEN /\ result' = r
                /\ hpc' = "returned"
                /\ UNCHANGED <<event, calls>>
           ELSE /\ event' = r.val
                /\ IF ran + 1 = Len(listeners)
                   THEN HookReturn(wrapper_emitted(hook, args, r.val))
                   ELSE UNCHANGED <<hpc, calls, result>>
    /\ UNCHANGED <<hook, args, listeners, codecVars, rewriteVars, edgeVars, pageVars, msgVars, emitVars, domVars>>

\* window.fetch of uv.client.js is called
client_fetch_call ==
    /\ hpc = "start"
    /\ hook = "client.fetch"
    /\ HookReturn(client_fetch(args[1], IF Len(args) > 1 THEN args[2] ELSE Undefined))
    /\ UNCHANGED <<hook, args, listeners, event, ran, codecVars, rewriteVars, edgeVars,
                   pageVars, msgVars, emitVars, domVars>>

\* XMLHttpRequest.prototype.open of uv.client.js is called
client_open_call ==
    /\ hpc = "start"
    /\ hook = "client.open"
    /\ HookReturn(client_open(args[1], args[2], SubSeq(args, 3, Len(args))))
    /\ UNCHANGED <<hook, args, listeners, event, ran, codecVars, rewriteVars, edgeVars,
                   pageVars, msgVars, emitVars, domVars>>

HookNext == override_call \/ listener_run \/ client_fetch_call \/ client_open_call

SpecHook == HookInit /\ [][HookNext]_vars

(***************************************************************************)
(* SpecPage: a rewriting function of the page or of the worker is called   *)
(* and returns.                                                            *)
(***************************************************************************)
\* the URLs of the contexts: the meta.url of the call, "" for an absent one
\* (this.meta.url is then the context), and one that does not parse
ContextUrls ==
    {"https://sub.example.com/x", "http://example.com/x", "https://other.com/x",
     "https://notexample.com/app/y", "ws://example.com/app", "wss://example.com:8443/",
     "ftp://example.com/x", "no url", ""}

Cookies ==
    [name : {"k"}, value : {"1"}, domain : {"", ".example.com", "example.com"},
     path : {"", "/", "/app"}, secure : BOOLEAN, httpOnly : BOOLEAN]

\* the cookies of the lists that serializeCookies is called with
ListedCookies ==
    {[name |-> "a", value |-> "1", domain |-> "", path |-> "", secure |-> FALSE,
      httpOnly |-> FALSE],
     [name |-> "b", value |-> "2", domain |-> ".example.com", path |-> "/", secure |-> FALSE,
      httpOnly |-> TRUE],
     [name |-> "c", value |-> "", domain |-> "example.com", path |-> "/app", secure |-> TRUE,
      httpOnly |-> FALSE],
     [name |-> "d", value |-> "x=y", domain |-> "other.com", path |-> "", secure |-> FALSE,
      httpOnly |-> FALSE]}

\* the candidates of a srcset list: the text between two commas, its URL
\* and its descriptor ("": none); the last one is empty
Candidates ==
    {[text |-> pre \o u \o d[1] \o d[2] \o d[3], url |-> u, desc |-> d[2]] :
        pre \in {"", " "}, u \in {"a.png", "/img/b.png?x=1", "https://cdn.test/c.png"},
        d \in {<<"", "", "">>, <<" ", "1x", "">>, <<" ", "2x", " ">>, <<"  ", "480w", "">>}}
    \cup {[text |-> "", url |-> "", desc |-> ""]}

\* the constructs of a style sheet: their text, their kind, the quote and
\* the payload
Constructs ==
    {[text |-> "url(" \o q \o u \o q \o ")", kind |-> "url", quote |-> q, payload |-> u] :
        q \in {"", "'", "\""}, u \in {"a.png", "/x.css"}}
    \cup {[text |-> "url(data:image/png;base64,AA==)", kind |-> "data", quote |-> "",
           payload |-> "data:image/png;base64,AA=="],
          [text |-> "url('data:,x')", kind |-> "data", quote |-> "'", payload |-> "data:,x"]}
    \cup {[text |-> "@import " \o q \o "x.css" \o q, kind |-> "import", quote |-> q,
           payload |-> "x.css"] : q \in {"'", "\""}}

\* names of attributes: those of the lists of the three files, forbidden
\* ones, and others
AttributeNames ==
    {"src", "href", "action", "poster", "background", "ping", "movie", "profile", "data",
     "formaction", "icon", "manifest", "codebase", "cite", "archive", "longdesc", "usemap",
     "http-equiv", "integrity", "sandbox", "nonce", "crossorigin",
     "HREF", "Src", "Integrity", "style", "srcset", "class", "id"}

AttributeValues == {"/a.png", "https://example.com/x?y=1", "", "#top", "color:red;background:url(a.png)"}

\* this.meta of the Ultraviolet instance
ThisMeta == [meta |-> [url |-> "https://example.com/app/index.html"]]

\* the properties read from the synthetic location
LocationProps ==
    {"href", "origin", "protocol", "host", "hostname", "port", "pathname", "search", "hash"}

\* uv.source of the pages the handler runs in (the page of uv.client.js has
\* ORIGINAL_URL)
PageSources ==
    {ORIGINAL_URL, "https://example.com:8443/a?b=1#frag", "http://sub.example.com/"}

\* the native values of document.referrer: none, a page of the proxy, the
\* proxy's own page
Referrers == {"", LocationHref("https://example.com/a?b=1"), LocationOrigin \o "/"}

\* the bodies of the Functions that a page constructs: an identifier with
\* text before and after it; the identifier is one of the three that name
\* the location, or another one
JsBodies ==
    {[text |-> pre \o id \o post, pre |-> pre, id |-> id, post |-> post] :
        pre \in {"", "return ", "u = "},
        id \in {"location", "document.location", "window.location", "mylocation", "locations",
                "href"},
        post \in {"", ".href", ";"}}

\* the Requests handed to fetch
FetchRequests ==
    {[type |-> "Request", url |-> u, used |-> b # Undefined /\ r, method |-> m, headers |-> h,
      body |-> b] :
        u \in {"https://example.com/api", "https://cdn.example.com/x.js"},
        m \in {"GET", "POST"}, h \in {"{}", "{X-A: 1}"}, b \in {Undefined, "payload"},
        r \in BOOLEAN} \ {[type |-> "Request", url |-> u, used |-> r, method |-> "GET",
                             headers |-> h, body |-> "payload"] :
                               u \in {"https://example.com/api", "https://cdn.example.com/x.js"},
                               h \in {"{}", "{X-A: 1}"}, r \in BOOLEAN}

\* the init of the caller of fetch
FetchInits ==
    {[undefined |-> TRUE, headers |-> Undefined, credentials |-> Undefined],
     [undefined |-> FALSE, headers |-> Undefined, credentials |-> "include"],
     [undefined |-> FALSE, headers |-> "{X-B: 2}", credentials |-> Undefined]}

PageCalls ==
    {[fn |-> "validateCookie", cookie |-> c, meta |-> [url |-> u], js |-> j] :
        c \in Cookies, u \in ContextUrls, j \in BOOLEAN}
    \cup {[fn |-> "serializeCookies", cookies |-> cs, meta |-> [url |-> u], js |-> j] :
            cs \in {<<>>} \cup {<<c>> : c \in ListedCookies}
                         \cup {<<c, d>> : c \in ListedCookies, d \in ListedCookies},
            u \in ContextUrls, j \in BOOLEAN}
    \cup {[fn |-> f, candidates |-> cs, srcset |-> Join([i \in 1..Len(cs) |-> cs[i].text], ",")] :
            f \in {"handler.rewriteSrcset", "client.rewriteSrcset"},
            cs \in {<<>>} \cup {<<c>> : c \in Candidates}
                         \cup {<<c, d>> : c \in Candidates, d \in Candidates}}
    \cup {[fn |-> f, constructs |-> cs,
           css |-> Join([i \in 1..Len(cs) |-> "x " \o cs[i].text], "; ") \o " y"] :
            f \in {"rewriteCSS", "rewriteCssUrls", "rewriteCss"},
            cs \in {<<c>> : c \in Constructs} \cup {<<c, d>> : c \in Constructs, d \in Constructs}}
    \cup {[fn |-> "attrs.isUrl", name |-> n, tag |-> t] :
            n \in AttributeNames, t \in {"", "a", "object"}}
    \cup {[fn |-> "attrs.isForbidden", name |-> n] : n \in AttributeNames}
    \cup {[fn |-> f, name |-> n, value |-> v] :
            f \in {"handler.setAttribute", "client.setAttribute"},
            n \in AttributeNames, v \in AttributeValues}
    \cup {[fn |-> f, args |-> <<"message", o>> \o t] :
            f \in {"handler.postMessage", "client.postMessage"},
            o \in {ORIGINAL_ORIGIN, "*", "https://other.com", LocationOrigin, "/"},
            t \in {<<>>, <<"transfer">>}}
    \cup {[fn |-> "handler.cookie.get", cookies |-> cs, source |-> u] :
            cs \in {<<>>} \cup {<<c>> : c \in ListedCookies}
                         \cup {<<c, d>> : c \in ListedCookies, d \in ListedCookies},
            u \in ContextUrls \ {""}}
    \cup {[fn |-> "client.cookie.get", cookies |-> cs, source |-> ORIGINAL_URL] :
            cs \in {<<>>} \cup {<<c>> : c \in ListedCookies}
                         \cup {<<c, d>> : c \in ListedCookies, d \in ListedCookies}}
    \cup {[fn |-> "handler.cookie.set", cookie |-> c, source |-> u] :
            c \in Cookies, u \in ContextUrls \ {""}}
    \cup {[fn |-> "client.cookie.set", cookie |-> c, source |-> ORIGINAL_URL] : c \in Cookies}
    \cup {[fn |-> "document.referrer", referrer |-> v, source |-> u, own |-> o] :
            v \in Referrers, u \in PageSources, o \in {{}, {"domain", "referrer"}}}
    \cup {[fn |-> "document.domain", referrer |-> v, source |-> u, own |-> {"domain", "referrer"}] :
            v \in Referrers, u \in PageSources}
    \cup {[fn |-> "handler.fetch", input |-> i, init |-> o] :
            i \in FetchRequests, o \in FetchInits}
    \cup {[fn |-> "client.fetch", input |-> i, init |-> o] :
            i \in FetchRequests, o \in {Undefined, "init"}}
    \cup {[fn |-> "Function", params |-> ps, body |-> b] :
            ps \in {<<>>, <<"a">>}, b \in JsBodies}
    \cup {[fn |-> "twice", of |-> "rewriteJs", text |-> b.text] : b \in JsBodies}
    \cup {[fn |-> "twice", of |-> "rewriteCssUrls", text |-> "x " \o c.text \o " y"] :
            c \in Constructs}
    \cup {[fn |-> "twice", of |-> "rewriteSrcset", text |-> c.text \o "," \o d.text] :
            c \in Candidates, d \in Candidates}
    \cup {[fn |-> "twice", of |-> "rewriteSrcset", text |-> c.text] : c \in Candidates}
    \cup {[fn |-> "fakeLocation.get", prop |-> p, source |-> u, frag |-> h] :
            p \in LocationProps, u \in PageSources, h \in {"", "#top"}}
    \cup {[fn |-> "locationHandler.get", prop |-> p, source |-> ORIGINAL_URL, frag |-> h] :
            p \in LocationProps, h \in {"", "#top"}}
    \cup {[fn |-> "fakeLocation.navigate", op |-> o, url |-> v, source |-> u] :
            o \in {"href", "assign", "replace"}, v \in AttributeValues \cup {"next.html"},
            u \in PageSources}
    \cup {[fn |-> "locationHandler.navigate", op |-> o, url |-> v, source |-> ORIGINAL_URL] :
            o \in {"href", "assign", "replace"}, v \in AttributeValues \cup {"next.html"}}

PageInit ==
    /\ ppc = "start"
    /\ call \in PageCalls
    /\ ret = None
    /\ CodecIdle
    /\ RewriteIdle
    /\ EdgeIdle
    /\ HookIdle
    /\ MsgIdle
    /\ EmitIdle
    /\ DomIdle

\* the function that is called returns r
PageReturn(r) ==
    /\ ret' = r
    /\ ppc' = "returned"
    /\ UNCHANGED <<call, codecVars, rewriteVars, edgeVars, hookVars, msgVars, emitVars, domVars>>

validateCookie_call ==
    /\ ppc = "start"
    /\ call.fn = "validateCookie"
    /\ PageReturn(validateCookie(ThisMeta, call.cookie, call.meta, call.js))

serializeCookies_call ==
    /\ ppc = "start"
    /\ call.fn = "serializeCookies"
    /\ PageReturn(serializeCookies(ThisMeta, call.cookies, call.meta, call.js))

handler_rewriteSrcset_call ==
    /\ ppc = "start"
    /\ call.fn = "handler.rewriteSrcset"
    /\ PageReturn(handler_rewriteSrcset(call.srcset))

client_rewriteSrcset_call ==
    /\ ppc = "start"
    /\ call.fn = "client.rewriteSrcset"
    /\ PageReturn(client_rewriteSrcset(call.srcset))

rewriteCSS_call ==
    /\ ppc = "start"
    /\ call.fn = "rewriteCSS"
    /\ PageReturn(rewriteCSS(call.css))

rewriteCssUrls_call ==
    /\ ppc = "start"
    /\ call.fn = "rewriteCssUrls"
    /\ PageReturn(rewriteCssUrls(call.css, ORIGINAL_URL))

rewriteCss_call ==
    /\ ppc = "start"
    /\ call.fn = "rewriteCss"
    /\ PageReturn(rewriteCss(call.css, ORIGINAL_URL))

isUrlAttr_call ==
    /\ ppc = "start"
    /\ call.fn = "attrs.isUrl"
    /\ PageReturn(isUrlAttr(call.name, call.tag))

isForbidden_call ==
    /\ ppc = "start"
    /\ call.fn = "attrs.isForbidden"
    /\ PageReturn(isForbidden(call.name))

handler_setAttribute_call ==
    /\ ppc = "start"
    /\ call.fn = "handler.setAttribute"
    /\ PageReturn(handler_setAttribute(call.name, call.value, ORIGINAL_URL))

client_setAttribute_call ==
    /\ ppc = "start"
    /\ call.fn = "client.setAttribute"
    /\ PageReturn(client_setAttribute(call.name, call.value))

\* postMessage is called through the override of MessageHook, with the
\* listener of the handler: the arguments the original is called with
handler_postMessage_call ==
    /\ ppc = "start"
    /\ call.fn = "handler.postMessage"
    /\ PageReturn(wrapper_emitted("postMessage", call.args,
                                  handler_postMessage(
                                      HookEvent(Destructured("postMessage", call.args)),
                                      ORIGINAL_URL)).calls[1])

client_postMessage_call ==
    /\ ppc = "start"
    /\ call.fn = "client.postMessage"
    /\ PageReturn(client_postMessage(call.args[1], call.args[2],
                                     IF Len(call.args) > 2 THEN call.args[3] ELSE Undefined))

fakeLocation_get ==
    /\ ppc = "start"
    /\ call.fn = "fakeLocation.get"
    /\ PageReturn(LocationHook_get(handler_location(call.source, call.frag), call.prop,
                                   call.source))

locationHandler_get_call ==
    /\ ppc = "start"
    /\ call.fn = "locationHandler.get"
    /\ PageReturn(locationHandler_get(client_location(call.frag), call.prop))

\* fakeLocation.href = url, fakeLocation.assign(url), fakeLocation.replace(url)
fakeLocation_navigate ==
    /\ ppc = "start"
    /\ call.fn = "fakeLocation.navigate"
    /\ PageReturn(IF call.op = "href"
                  THEN LocationHook_set(handler_location(call.source, ""), "href", call.url,
                                        call.source)
                  ELSE LocationHook_call(handler_location(call.source, ""), call.op, call.url,
                                         call.source))

locationHandler_navigate_call ==
    /\ ppc = "start"
    /\ call.fn = "locationHandler.navigate"
    /\ PageReturn(locationHandler_navigate(call.op, call.url))

\* a read of document.cookie in a page of the handler
overrideCookie_get_call ==
    /\ ppc = "start"
    /\ call.fn = "handler.cookie.get"
    /\ PageReturn(overrideCookie_get(call.cookies, call.source))

\* document.cookie = CookieString(cookie) in a page of the handler
overrideCookie_set_call ==
    /\ ppc = "start"
    /\ call.fn = "handler.cookie.set"
    /\ PageReturn(overrideCookie_set(CookieString(call.cookie), call.source))

client_cookie_get_call ==
    /\ ppc = "start"
    /\ call.fn = "client.cookie.get"
    /\ PageReturn(client_cookie_get(call.cookies))

client_cookie_set_call ==
    /\ ppc = "start"
    /\ call.fn = "client.cookie.set"
    /\ PageReturn(client_cookie_set(CookieString(call.cookie)))

\* a read of document.referrer, before (own is empty) and after the
\* handler has defined its accessors
document_referrer_call ==
    /\ ppc = "start"
    /\ call.fn = "document.referrer"
    /\ PageReturn(document_get([own |-> call.own, referrer |-> call.referrer], "referrer",
                               call.source, 0))

document_domain_call ==
    /\ ppc = "start"
    /\ call.fn = "document.domain"
    /\ PageReturn(document_get([own |-> call.own, referrer |-> call.referrer], "domain",
                               call.source, 0))

\* new Function(...params, body) in a page of the handler: the arguments
\* that the original Function is constructed with
handler_construct_call ==
    /\ ppc = "start"
    /\ call.fn = "Function"
    /\ PageReturn(handler_construct(call.params \o <<call.body.text>>))

\* a text rewriter of the handler applied to a text, and to its own result
\* fetch of uv.handler.js is called with a Request
handler_fetch_call ==
    /\ ppc = "start"
    /\ call.fn = "handler.fetch"
    /\ PageReturn(handler_fetch(call.input, call.init, ORIGINAL_URL))

\* window.fetch of uv.client.js is called with a Request
client_fetch_Request ==
    /\ ppc = "start"
    /\ call.fn = "client.fetch"
    /\ PageReturn(client_fetch(call.input, call.init).calls)

rewrite_twice ==
    /\ ppc = "start"
    /\ call.fn = "twice"
    /\ \E once \in {CASE call.of = "rewriteJs" -> rewriteJs(call.text)
                      [] call.of = "rewriteCssUrls" -> rewriteCssUrls(call.text, ORIGINAL_URL)
                      [] call.of = "rewriteSrcset" -> handler_rewriteSrcset(call.text)} :
           PageReturn(<<once,
                        CASE call.of = "rewriteJs" -> rewriteJs(once)
                          [] call.of = "rewriteCssUrls" -> rewriteCssUrls(once, ORIGINAL_URL)
                          [] call.of = "rewriteSrcset" -> handler_rewriteSrcset(once)>>)

PageNext ==
    \/ validateCookie_call
    \/ serializeCookies_call
    \/ handler_rewriteSrcset_call
    \/ client_rewriteSrcset_call
    \/ rewriteCSS_call
    \/ rewriteCssUrls_call
    \/ rewriteCss_call
    \/ isUrlAttr_call
    \/ isForbidden_call
    \/ handler_setAttribute_call
    \/ client_setAttribute_call
    \/ handler_postMessage_call
    \/ client_postMessage_call
    \/ overrideCookie_get_call
    \/ overrideCookie_set_call
    \/ client_cookie_get_call
    \/ client_cookie_set_call
    \/ document_referrer_call
    \/ document_domain_call
    \/ handler_construct_call
    \/ rewrite_twice
    \/ handler_fetch_call
    \/ client_fetch_Request
    \/ fakeLocation_get
    \/ locationHandler_get_call
    \/ fakeLocation_navigate
    \/ locationHandler_navigate_call

SpecPage == PageInit /\ [][PageNext]_vars

(***************************************************************************)
(* SpecMessages: the pages post register-url and get-original-url to the   *)
(* service worker of sw.js, which receives the messages of a client in the *)
(* order the client posted them, and the messages of different clients in  *)
(* any order.                                                              *)
(***************************************************************************)
\* what a page posts: register-url (uv.client.js posts it with its
\* ORIGINAL_URL), get-original-url, and a message of another type; data of
\* the last two has no originalUrl
Messages ==
    {[type |-> "register-url", data |-> [originalUrl |-> u]] :
        u \in {"https://example.com/a", "https://example.org/b"}}
    \cup {[type |-> "get-original-url", data |-> [originalUrl |-> Undefined]],
          [type |-> "ping", data |-> [originalUrl |-> Undefined]]}

MsgInit ==
    /\ MsgIdle
    /\ EmitIdle
    /\ DomIdle
    /\ CodecIdle
    /\ RewriteIdle
    /\ EdgeIdle
    /\ HookIdle
    /\ PageIdle

\* navigator.serviceWorker.controller.postMessage(m) in the client c
controller_postMessage(c, m) ==
    /\ posted < MaxMessages
    /\ posted' = posted + 1
    /\ channel' = [channel EXCEPT ![c] = Append(@, m)]
    /\ UNCHANGED <<urlMap, replies, received, codecVars, rewriteVars, edgeVars, hookVars,
                   pageVars, emitVars, domVars>>

\* the listener of 'message' of the worker runs for the next message of
\* the client c
sw_message(c) ==
    /\ channel[c] # <<>>
    /\ channel' = [channel EXCEPT ![c] = Tail(@)]
    /\ received' = Append(received, [source |-> c, data |-> Head(channel[c])])
    /\ \E m \in {Head(channel[c])} :
           IF m.type = "register-url"
           THEN /\ urlMap' = urlMap_set(urlMap, c, m.data.originalUrl)
                /\ UNCHANGED replies
           ELSE IF m.type = "get-original-url"
           THEN /\ replies' = [replies EXCEPT
                                  ![c] = Append(@, [type |-> "original-url",
                                                    url |-> urlMap_get(urlMap, c)])]
                /\ UNCHANGED urlMap
           ELSE UNCHANGED <<urlMap, replies>>
    /\ UNCHANGED <<posted, codecVars, rewriteVars, edgeVars, hookVars, pageVars, emitVars, domVars>>

MsgNext ==
    \/ \E c \in Clients, m \in Messages : controller_postMessage(c, m)
    \/ \E c \in Clients : sw_message(c)

SpecMessages == MsgInit /\ [][MsgNext]_vars

(***************************************************************************)
(* SpecEmitter: on, once, off and emit are called on an EventEmitter of    *)
(* uv.bundle.js, for one event, in any order.                              *)
(***************************************************************************)
\* the functions that are registered
Listeners == {"f", "g"}

EmitInit ==
    /\ EmitIdle
    /\ DomIdle
    /\ CodecIdle
    /\ RewriteIdle
    /\ EdgeIdle
    /\ HookIdle
    /\ PageIdle
    /\ MsgIdle

\* on(e, fn)
EventEmitter_on(fn) ==
    /\ steps < MaxSteps
    /\ steps' = steps + 1
    /\ events' = Append(events, [fn |-> fn, once |-> FALSE, key |-> 0])
    /\ UNCHANGED <<emitted, codecVars, rewriteVars, edgeVars, hookVars, pageVars, msgVars, domVars>>

\* once(e, fn): on(e, onceWrapper)
EventEmitter_once(fn) ==
    /\ steps < MaxSteps
    /\ steps' = steps + 1
    /\ events' = Append(events, [fn |-> fn, once |-> TRUE, key |-> steps + 1])
    /\ UNCHANGED <<emitted, codecVars, rewriteVars, edgeVars, hookVars, pageVars, msgVars, domVars>>

\* off(e, fn)
EventEmitter_off(fn) ==
    /\ steps < MaxSteps
    /\ steps' = steps + 1
    /\ events' = off(events, [fn |-> fn, once |-> FALSE, key |-> 0])
    /\ UNCHANGED <<emitted, codecVars, rewriteVars, edgeVars, hookVars, pageVars, msgVars, domVars>>

\* emit(e)
EventEmitter_emit ==
    /\ steps < MaxSteps
    /\ steps' = steps + 1
    /\ \E r \in {emit(events)} :
           /\ events' = r.events
           /\ emitted' = Append(emitted, [registered |-> events, invoked |-> r.invoked])
    /\ UNCHANGED <<codecVars, rewriteVars, edgeVars, hookVars, pageVars, msgVars, domVars>>

EmitNext ==
    \/ \E fn \in Listeners : EventEmitter_on(fn)
    \/ \E fn \in Listeners : EventEmitter_once(fn)
    \/ \E fn \in Listeners : EventEmitter_off(fn)
    \/ EventEmitter_emit

SpecEmitter == EmitInit /\ [][EmitNext]_vars

(***************************************************************************)
(* SpecDom: a page of uv.client.js builds two elements, inner in outer,    *)
(* from markup, calls setAttribute on them, and inserts outer into the     *)
(* document, which runs the MutationObserver.                              *)
(***************************************************************************)
Elements == {"outer", "inner"}

\* the values of href in markup and in calls of setAttribute
HrefValues == {"/a.png", "next.html", "#top"}

\* the values of srcset: candidates 'url descriptor' with ', ' between them
SrcsetValues ==
    {"a.png 1x", "a.png 1x, /img/b.png 2x", "blob:https://example.com/1 1x, /img/b.png 2x"}

\* the elements as the parser built them from markup
Markup ==
    {[attr \in urlAttributes |-> IF attr = "href" THEN h ELSE IF attr = "srcset" THEN ss
                                                        ELSE Undefined] :
        h \in {Undefined, "/a.png"}, ss \in {Undefined, "a.png 1x, /img/b.png 2x"}}

DomInit ==
    /\ dom \in [Elements -> Markup]
    /\ written = dom
    /\ inserted = FALSE
    /\ domSteps = 0
    /\ CodecIdle
    /\ RewriteIdle
    /\ EdgeIdle
    /\ HookIdle
    /\ PageIdle
    /\ MsgIdle
    /\ EmitIdle

\* element.setAttribute(name, value) through the override
Element_setAttribute(element, name, value) ==
    /\ domSteps < MaxSetAttribute
    /\ domSteps' = domSteps + 1
    /\ dom' = [dom EXCEPT ![element][ToLowerCase(name)] = client_setAttribute(name, value)]
    /\ written' = [written EXCEPT ![element][ToLowerCase(name)] = value]
    /\ UNCHANGED <<inserted, codecVars, rewriteVars, edgeVars, hookVars, pageVars, msgVars,
                   emitVars>>

\* outer is appended to the document: the observer's callback runs
\* rewriteElement for the added node
observer_callback ==
    /\ ~inserted
    /\ inserted' = TRUE
    /\ dom' = rewriteElement(dom, "outer", {"inner"})
    /\ UNCHANGED <<written, domSteps, codecVars, rewriteVars, edgeVars, hookVars, pageVars,
                   msgVars, emitVars>>

DomNext ==
    \/ \E e \in Elements :
           \/ \E v \in HrefValues : Element_setAttribute(e, "href", v)
           \/ \E v \in SrcsetValues : Element_setAttribute(e, "srcset", v)
    \/ observer_callback

SpecDom == DomInit /\ [][DomNext]_vars

(***************************************************************************)
(* Claims.                                                                 *)
(***************************************************************************)
\* C1: for each of the four codecs and every non-empty string of URL-legal
\* characters, decoding the token that encode returned gives the string back.
C1_RoundTrip == (cpc = "decoded" /\ input # "") => decoded = Ok(input)

\* a string of full length went through the xor codec, whose token differs
\* from it, and came back
C1_Witness ==
    /\ cpc = "decoded"
    /\ codec = "xor"
    /\ Len(input) = MaxLen
    /\ token.val # input
    /\ decoded = Ok(input)

\* C2: rewriting is idempotent for every rewriter (the bundle's rewriteUrl,
\* the handler's rewriteUrl, resolveAndEncode, createProxyUrl): rewriting
\* the result of a rewrite again, in the same context, returns that result.
C2_Idempotent == rpc = "rewrittenTwice" => rewrittenTwice = rewritten

\* C3: the bundle's rewriteUrl, the handler's rewriteUrl and createProxyUrl
\* return unchanged every reference that starts with #, data:, blob:, about:,
\* mailto: or tel:.
C3_SkipListUnchanged ==
    (/\ rpc = "rewritten"
     /\ impl \in {"bundle", "handler", "sw"}
     /\ \E p \in {"#", "data:", "blob:", "about:", "mailto:", "tel:"} : StartsWith(raw, p))
    => rewritten = Ok(raw)

\* C4: sourceUrl (of the bundle, of the handler) gives back every absolute
\* URL outside the skip list from the result of rewriteUrl, and returns
\* unchanged every input that does not carry the prefix.
C4_SourceInverse ==
    /\ (rpc = "sourced" /\ raw \in AbsoluteUrls) => sourced = Ok(raw)
    /\ (rpc = "sourcedRaw" /\ ~Includes(raw, Prefix)) => sourced = Ok(raw)

\* C5: when fetch returns a response with status 301, 302, 303, 307 or 308,
\* or an opaque redirect, whose Location (if it has one) resolves against
\* the decoded target, the worker answers with the same status and with the
\* Location prefix + encode(resolved Location), relative or on the proxy's
\* origin.
C5_RedirectRewritten ==
    (/\ epc = "done"
     /\ upstream.ok
     /\ upstream.val.type = "opaqueredirect" \/ upstream.val.status \in {301, 302, 303, 307, 308}
     /\ \/ Get(upstream.val.headers, "Location") = ""
        \/ ResolveHref(Get(upstream.val.headers, "Location"), target.val).ok)
    => /\ outcome.status = upstream.val.status
       /\ Get(upstream.val.headers, "Location") # ""
          => LET resolved == ResolveHref(Get(upstream.val.headers, "Location"), target.val).val
                 encoded == IF worker = "sw" THEN sw_encodeUrl(resolved)
                            ELSE xor_encode(resolved).val
             IN  Get(outcome.headers, "Location")
                     \in {Prefix \o encoded, LocationOrigin \o Prefix \o encoded}

\* C6: the request handed to fetch carries no header other than the
\* allow-listed ones (accept, accept-language, content-type, range,
\* if-none-match, if-modified-since), with the values of the incoming
\* request, and Host, Origin and Referer.
C6_AllowListOnly ==
    sent # NoRequest
    => \A h \in sent.headers :
           \/ h.name \in {"host", "origin", "referer"}
           \/ /\ h.name \in {"accept", "accept-language", "content-type", "range",
                             "if-none-match", "if-modified-since"}
              /\ h.value = Get(req.headers, h.name)

\* C7: for a response of fetch that is no redirect, the response of
\* handleProxyRequest has the same status and body, and the same headers
\* (names compared without case) except content-security-policy,
\* x-frame-options and content-encoding.
C7_PassThrough ==
    (/\ epc = "done"
     /\ worker = "sw"
     /\ upstream.ok
     /\ upstream.val.type # "opaqueredirect"
     /\ upstream.val.status \notin {301, 302, 303, 307, 308})
    => /\ outcome.status = upstream.val.status
       /\ outcome.body = upstream.val.body
       /\ outcome.headers =
              {h \in Entries(upstream.val.headers) :
                  h.name \notin {"content-security-policy", "x-frame-options",
                                 "content-encoding"}}

\* a response with the three headers in mixed case went through sw.js and
\* came out with its two other headers
C7_Witness ==
    /\ epc = "done"
    /\ worker = "sw"
    /\ upstream.ok
    /\ upstream.val.status = 200
    /\ Get(upstream.val.headers, "x-frame-options") = "DENY"
    /\ Get(upstream.val.headers, "content-security-policy") # ""
    /\ Get(upstream.val.headers, "content-encoding") = "gzip"
    /\ outcome.headers = {[name |-> "content-type", value |-> "text/html"],
                          [name |-> "x-custom", value |-> "1"]}
    /\ outcome.body = "<html>"

\* C8: a token that does not decode ends the request in Failed with status
\* 400 and without a call of fetch, in sw.js and in uv.sw.js.
C8_DecodeError ==
    (epc = "done" /\ target # None /\ ~target.ok)
    => /\ phases[Len(phases)] = "Failed"
       /\ outcome.status = 400
       /\ execCalls = 0

\* C9: when fetch throws, the request ends in Failed with a status of 500
\* or more and a body that holds the message of the exception; fetch is
\* called at most once for a request.
C9_ExecutorError ==
    /\ execCalls <= 1
    /\ (epc = "done" /\ upstream # None /\ ~upstream.ok)
       => /\ phases[Len(phases)] = "Failed"
          /\ outcome.status >= 500
          /\ Includes(outcome.body, upstream.val)

\* fetch threw for a request of uv.sw.js, which answered 500
C9_Witness ==
    /\ epc = "done"
    /\ worker = "uvsw"
    /\ upstream = Throw("Failed to fetch")
    /\ execCalls = 1
    /\ outcome.status = 500
    /\ outcome.body = "Proxy Error: Failed to fetch"

\* C10: a request goes through Received, Decoded, Forwarded in that order
\* and its handler ends in exactly one of Responded, RedirectRewritten and
\* Failed; fetch is called only after the token decoded, and Responded or
\* RedirectRewritten is reached only after fetch returned.
C10_StateMachine ==
    /\ phases \in {<<>>, <<"Received", "Failed">>, <<"Received", "Decoded", "Failed">>,
                   <<"Received", "Decoded", "Forwarded">>,
                   <<"Received", "Decoded", "Forwarded", "Responded">>,
                   <<"Received", "Decoded", "Forwarded", "RedirectRewritten">>,
                   <<"Received", "Decoded", "Forwarded", "Failed">>}
    /\ (\E i \in 1..Len(phases) : phases[i] = "Decoded") => target.ok
    /\ execCalls > 0 <=> \E i \in 1..Len(phases) : phases[i] = "Forwarded"
    /\ (\E i \in 1..Len(phases) : phases[i] \in {"Responded", "RedirectRewritten"}) => upstream.ok
    /\ epc = "waiting" <=> (phases # <<>> /\ phases[Len(phases)] = "Forwarded")
    /\ epc = "done" <=> (phases # <<>>
                         /\ phases[Len(phases)] \in {"Responded", "RedirectRewritten", "Failed"})

\* a request of sw.js went through every state and ended with a rewritten
\* redirect
C10_Witness ==
    /\ epc = "done"
    /\ worker = "sw"
    /\ phases = <<"Received", "Decoded", "Forwarded", "RedirectRewritten">>
    /\ execCalls = 1
    /\ upstream.ok
    /\ upstream.val.status = 307

\* C11: a call of an override of UVClient with its least number of
\* arguments or more, once it is over: if a listener called respondWith(v),
\* the original primitive was not invoked and the call returned v (the
\* value of the last respondWith); otherwise the original was invoked once,
\* with the properties of event.data as the listeners left them (and the
\* arguments after them for open), and the call returned its result.
C11_Override ==
    (/\ hpc = "returned"
     /\ hook \in DOMAIN Overrides
     /\ Len(args) >= Overrides[hook].min)
    => IF \E i \in 1..Len(listeners) : listeners[i] \in {"respondWith(v)", "respondWith(w)"}
       THEN /\ calls = <<>>
            /\ result.ok
            /\ \E i \in 1..Len(listeners) :
                   /\ listeners[i] = "respondWith(" \o result.val \o ")"
                   /\ \A j \in (i + 1)..Len(listeners) :
                          listeners[j] \notin {"respondWith(v)", "respondWith(w)"}
       ELSE /\ Len(calls) = 1
            /\ calls[1] = event.data \o (IF hook = "open" THEN SubSeq(args, 3, Len(args))
                                          ELSE <<>>)
            /\ result = Ok(Original(hook, calls[1]))
            /\ \A i \in 1..Len(event.data) :
                   event.data[i] = IF i > 1 \/ \A k \in 1..Len(listeners) : listeners[k] # "rewrite"
                                   THEN Destructured(hook, args)[i]
                                   ELSE IF Len(listeners) = 2 /\ listeners[1] = listeners[2]
                                   THEN "rewritten(rewritten(" \o args[1] \o "))"
                                   ELSE "rewritten(" \o args[1] \o ")"

\* C12: when a listener throws in an overridden call, or a rewrite step of
\* the overrides of uv.client.js does, the call does not throw: the
\* original primitive is invoked with the arguments of the caller, and the
\* call returns its result.
C12_OverrideFailure ==
    /\ (/\ hpc = "returned"
        /\ hook \in DOMAIN Overrides
        /\ \E i \in 1..ran : listeners[i] = "throw")
       => /\ result = Ok(Original(hook, args))
          /\ calls = <<args>>
    /\ (/\ hpc = "returned"
        /\ hook = "client.fetch"
        /\ args[1].type = "Request"
        /\ args[1].used)
       => /\ result = Ok("originalFetch")
          /\ calls = <<<<args[1], IF Len(args) > 1 THEN args[2] ELSE "{}">>>>

\* C13: a call of an override of UVClient with fewer arguments than its
\* least number makes no HookEvent, runs no listener, and returns the
\* result of the original primitive, invoked once with the arguments of
\* the caller.
C13_BelowMinimum ==
    (/\ hpc = "returned"
     /\ hook \in DOMAIN Overrides
     /\ Len(args) < (CASE hook \in {"fetch", "postMessage", "sendBeacon", "getAttribute"} -> 1
                       [] hook \in {"open", "setAttribute", "setProperty"} -> 2
                       [] hook \in {"pushState", "replaceState"} -> 3
                       [] OTHER -> 0))
    => /\ event = None
       /\ ran = 0
       /\ calls = <<args>>
       /\ result = Ok(Original(hook, args))

\* pushState was called with two arguments and with two listeners, one of
\* which would have thrown
C13_Witness ==
    /\ hpc = "returned"
    /\ hook = "pushState"
    /\ args = <<"a", "b">>
    /\ listeners = <<"rewrite", "throw">>
    /\ event = None
    /\ calls = <<<<"a", "b">>>>
    /\ result = Ok(Original("pushState", <<"a", "b">>))

\* the parsed URL of the context of the call of validateCookie or
\* serializeCookies
ContextOf(c) == ParseURL(IF c.meta.url # "" THEN c.meta.url ELSE ThisMeta.meta.url, Undefined)

\* C14: when validateCookie has no other ground to reject a cookie (it is
\* not an httpOnly cookie in a script context, the URL of the context
\* parses, the cookie is not secure, its path is absent), it accepts the
\* cookie exactly when the cookie has no domain, or its domain starts with
\* '.' and the hostname is the domain without the dot or ends with '.' and
\* that domain, or its domain has no leading dot and is the hostname.
C14_DomainMatch ==
    (/\ ppc = "returned"
     /\ call.fn = "validateCookie"
     /\ ~(call.cookie.httpOnly /\ call.js)
     /\ ContextOf(call).ok
     /\ ~call.cookie.secure
     /\ call.cookie.path = "")
    => (ret <=> \/ call.cookie.domain = ""
                \/ /\ StartsWith(call.cookie.domain, ".")
                   /\ \/ Hostname(ContextOf(call).val) = SliceFrom(call.cookie.domain, 1)
                      \/ EndsWith(Hostname(ContextOf(call).val), call.cookie.domain)
                \/ /\ ~StartsWith(call.cookie.domain, ".")
                   /\ Hostname(ContextOf(call).val) = call.cookie.domain)

\* C15: validateCookie rejects a secure cookie at every context whose
\* scheme is neither https nor wss.
C15_SecureScheme ==
    (/\ ppc = "returned"
     /\ call.fn = "validateCookie"
     /\ call.cookie.secure
     /\ ContextOf(call).ok
     /\ Protocol(ContextOf(call).val) \notin {"https:", "wss:"})
    => ret = FALSE

\* C16: validateCookie rejects every cookie whose path is set and is not a
\* prefix of the pathname of the context; and a cookie without domain that
\* has no other ground of rejection (not httpOnly in a script context, not
\* secure, the URL of the context parses) is accepted exactly when its
\* path is absent or a prefix of the pathname: one without domain and
\* without path, at every context whose URL parses.
C16_PathMatch ==
    (ppc = "returned" /\ call.fn = "validateCookie" /\ ContextOf(call).ok)
    => /\ (/\ call.cookie.path # ""
           /\ ~StartsWith(Pathname(ContextOf(call).val), call.cookie.path))
          => ret = FALSE
       /\ (/\ call.cookie.domain = ""
           /\ ~call.cookie.secure
           /\ ~(call.cookie.httpOnly /\ call.js))
          => (ret <=> \/ call.cookie.path = ""
                      \/ StartsWith(Pathname(ContextOf(call).val), call.cookie.path))

\* the cookie without domain whose path is /app was rejected at the
\* context https://sub.example.com/x
C16_Witness ==
    /\ ppc = "returned"
    /\ call.fn = "validateCookie"
    /\ call.meta.url = "https://sub.example.com/x"
    /\ call.cookie.domain = ""
    /\ call.cookie.path = "/app"
    /\ ~call.cookie.secure
    /\ ~call.cookie.httpOnly
    /\ ret = FALSE

\* C17: serializeCookies returns the pairs name=value of the cookies of
\* the list that validateCookie accepts, in the order of the list and
\* with '; ' between two of them: "" when it accepts none, and no
\* httpOnly cookie in a script context.
C17_Serialize ==
    (ppc = "returned" /\ call.fn = "serializeCookies")
    => \E keep \in SUBSET (1..Len(call.cookies)) :
           /\ \A i \in 1..Len(call.cookies) :
                  i \in keep <=> validateCookie(ThisMeta, call.cookies[i], call.meta, call.js)
           /\ \A i \in keep : ~(call.cookies[i].httpOnly /\ call.js)
           /\ ret = (CASE keep = {} -> ""
                       [] keep = {1} -> call.cookies[1].name \o "=" \o call.cookies[1].value
                       [] keep = {2} -> call.cookies[2].name \o "=" \o call.cookies[2].value
                       [] keep = {1, 2} -> call.cookies[1].name \o "=" \o call.cookies[1].value
                                           \o "; " \o call.cookies[2].name \o "="
                                           \o call.cookies[2].value)

\* the cookies a and d were serialized at https://other.com/x
C17_Witness ==
    /\ ppc = "returned"
    /\ call.fn = "serializeCookies"
    /\ call.meta.url = "https://other.com/x"
    /\ Len(call.cookies) = 2
    /\ call.cookies[1].name = "a"
    /\ call.cookies[2].name = "d"
    /\ ret = "a=1; d=x=y"

Rewritten(fn, c, q) ==
    CASE c.kind = "data" -> c.text
      [] c.kind = "url"
         -> "url(" \o q
            \o (CASE fn = "rewriteCSS" -> rewriteUrl(c.payload, PageMeta, "xor")
                   [] fn = "rewriteCssUrls"
                      -> handler_rewriteUrl(c.payload, ORIGINAL_URL, ORIGINAL_URL)
                   [] fn = "rewriteCss" -> createProxyUrl(c.payload, ORIGINAL_URL))
            \o q \o ")"
      [] c.kind = "import"
         -> "@import " \o q
            \o (CASE fn = "rewriteCSS" -> rewriteUrl(c.payload, PageMeta, "xor")
                   [] fn = "rewriteCssUrls"
                      -> handler_rewriteUrl(c.payload, ORIGINAL_URL, ORIGINAL_URL)
                   [] fn = "rewriteCss" -> createProxyUrl(c.payload, ORIGINAL_URL))
            \o q

\* C19: rewriteCSS, rewriteCssUrls and rewriteCss return the style sheet
\* with the payload of every url(), unquoted, single-quoted or
\* double-quoted, and the target of every @import replaced by its
\* rewritten form (within quotes of some kind, or none for url()), with
\* every url() of a data: payload and all the text around the constructs
\* unchanged.
C19_Css ==
    (ppc = "returned" /\ call.fn \in {"rewriteCSS", "rewriteCssUrls", "rewriteCss"})
    => \E q \in [1..Len(call.constructs) -> {"", "'", "\""}] :
           /\ \A i \in 1..Len(call.constructs) :
                  call.constructs[i].kind = "import" => q[i] # ""
           /\ ret = Join([i \in 1..Len(call.constructs) |->
                             "x " \o Rewritten(call.fn, call.constructs[i], q[i])], "; ")
                    \o " y"

\* C20: attrs.isUrl is true of exactly the names that are, in lower case,
\* one of the seventeen URL attributes, attrs.isForbidden of exactly the
\* five forbidden names, and the value that setAttribute is given by the
\* handler and by uv.client.js is the rewritten value for the names of
\* the URL attributes and the value of the caller for every other name.
C20_UrlAttributes ==
    ppc = "returned"
    => /\ call.fn = "attrs.isUrl"
          => (ret <=> ToLowerCase(call.name) \in
                        {"href", "src", "action", "poster", "background", "ping", "movie",
                         "profile", "data", "formaction", "icon", "manifest", "codebase",
                         "cite", "archive", "longdesc", "usemap"})
       /\ call.fn = "attrs.isForbidden"
          => (ret <=> ToLowerCase(call.name) \in
                        {"http-equiv", "integrity", "sandbox", "nonce", "crossorigin"})
       /\ call.fn \in {"handler.setAttribute", "client.setAttribute"}
          => ret = IF ToLowerCase(call.name) \in
                        {"href", "src", "action", "poster", "background", "ping", "movie",
                         "profile", "data", "formaction", "icon", "manifest", "codebase",
                         "cite", "archive", "longdesc", "usemap"}
                   THEN IF call.fn = "handler.setAttribute"
                        THEN handler_rewriteUrl(call.value, ORIGINAL_URL, ORIGINAL_URL)
                        ELSE resolveAndEncode(call.value, ORIGINAL_URL)
                   ELSE call.value

\* C21: the token of the base64 codec of uv.bundle.js and of encodeUrl of
\* sw.js for a string is the URL-safe base64, without padding, of the
\* percent-encoded string: it has no '+', no '/' and no '=', and decoding
\* it gives the string back.
C21_Base64Url ==
    (cpc = "decoded" /\ codec \in {"base64", "sw"} /\ input # "")
    => /\ \A i \in 1..Len(token.val) : At(token.val, i) \notin {"+", "/", "="}
       /\ token.val = Str(UrlSafe(BtoaC(EncodeURIComponentC(Codes(input)))))
       /\ decoded = Ok(input)

\* C22: decode of every codec, and decodeUrl, given a token with a '%'
\* that no escape of a UTF-8 character starts (plain, xor), or with a
\* character outside the base64 alphabet or a length of 1 modulo 4 (base64,
\* sw.js), returns the failure value and throws nothing; the empty token
\* decodes to the empty string, which differs from the failure value.
C22_DecodeError ==
    cpc = "rawDecoded"
    => /\ (\/ codec \in {"plain", "xor"} /\ Includes(input, "%")
           \/ /\ codec \in {"base64", "sw"}
              /\ \/ \E i \in 1..Len(input) : At(input, i) \in {":", "%", "~", "?"}
                 \/ Len(input) % 4 = 1)
          => decoded = Null
       /\ input = "" => (decoded = Ok("") /\ decoded # Null)

\* C29: the token that a codec of uv.bundle.js, or encodeUrl of sw.js,
\* returns for a string that starts with a scheme has no '/'.
C29_NoSeparator ==
    (cpc = "encoded" /\ SchemeEnd(input) > 0) => ~Includes(token.val, "/")

\* C23: postMessage called through the override of the handler or of
\* uv.client.js hands the message of the caller to the original
\* postMessage; with it the origin of the proxy when the targetOrigin of
\* the caller is the origin of the page, and '*' when it is '*'.
C23_PostMessageOrigin ==
    (ppc = "returned" /\ call.fn \in {"handler.postMessage", "client.postMessage"})
    => /\ ret[1] = call.args[1]
       /\ call.args[2] = ORIGINAL_ORIGIN => ret[2] = LocationOrigin
       /\ call.args[2] = "*" => ret[2] = "*"

\* the places in the messages the worker received of the get-original-url
\* messages of the client c, in order
GetsOf(c) ==
    SelectSeq([k \in 1..Len(received) |-> k],
              LAMBDA k : received[k].source = c /\ received[k].data.type = "get-original-url")

\* the places before k of the register-url messages of the client c
RegistersBefore(c, k) ==
    {j \in 1..(k - 1) : received[j].source = c /\ received[j].data.type = "register-url"}

\* C24: whatever the order in which the worker received the messages of
\* the clients, a client got one original-url reply for each of its
\* get-original-url messages that the worker received, in their order, and
\* the reply has the originalUrl of the last register-url of that client
\* that the worker received before (undefined when there is none): the
\* messages of the other clients do not count.
C24_LastWriterPerContext ==
    \A c \in Clients :
        /\ Len(replies[c]) = Len(GetsOf(c))
        /\ \A n \in 1..Len(replies[c]) :
               /\ replies[c][n].type = "original-url"
               /\ replies[c][n].url =
                     IF RegistersBefore(c, GetsOf(c)[n]) = {} THEN Undefined
                     ELSE received[CHOOSE j \in RegistersBefore(c, GetsOf(c)[n]) :
                                      \A i \in RegistersBefore(c, GetsOf(c)[n]) : i <= j
                                  ].data.data.originalUrl

\* c1 registered a URL, c2 registered another one after it, and c1 then
\* asked for its URL and got the one it had registered
C24_Witness ==
    /\ Len(received) = 3
    /\ received[1] = [source |-> "c1", data |-> [type |-> "register-url",
                                                data |-> [originalUrl |-> "https://example.com/a"]]]
    /\ received[2] = [source |-> "c2", data |-> [type |-> "register-url",
                                                data |-> [originalUrl |-> "https://example.org/b"]]]
    /\ received[3].source = "c1"
    /\ received[3].data.type = "get-original-url"
    /\ replies["c1"] = <<[type |-> "original-url", url |-> "https://example.com/a"]>>
    /\ replies["c2"] = <<>>

\* C30: Ultraviolet.rewriteUrl of a reference javascript:<body> hands the
\* body to rewriteJS and returns 'javascript:' followed by what rewriteJS
\* returned; the reference is not returned as an entry of the skip list,
\* without a call of rewriteJS.
C30_JavascriptBody ==
    (rpc = "rewritten" /\ impl = "bundle" /\ StartsWith(Trim(raw), "javascript:"))
        => /\ jsCalls = <<SliceFrom(Trim(raw), 11)>>
           /\ rewritten = Ok("javascript:" \o rewriteJS(SliceFrom(Trim(raw), 11)))

\* C25: assign(u), replace(u) and the assignment of u to href on the
\* synthetic location (fakeLocation of the handler, locationHandler of
\* uv.client.js) reach the real location as one navigation of the same
\* kind to the rewritten u (rewriteUrl(u, uv.source) in the handler,
\* resolveAndEncode(u) in uv.client.js), never to u as it was given.
C25_NavigationRewritten ==
    /\ (ppc = "returned" /\ call.fn = "fakeLocation.navigate")
          => ret = <<[op |-> call.op,
                      url |-> handler_rewriteUrl(call.url, call.source, call.source)]>>
    /\ (ppc = "returned" /\ call.fn = "locationHandler.navigate")
          => ret = <<[op |-> call.op, url |-> resolveAndEncode(call.url, ORIGINAL_URL)]>>

\* C26: href, origin, protocol, host, hostname, port, pathname, search and
\* hash read from the synthetic location are the components of the source
\* URL of the page (uv.source in the handler, ORIGINAL_URL in
\* uv.client.js), whatever the real location is.
C26_LocationComponents ==
    (ppc = "returned" /\ call.fn \in {"fakeLocation.get", "locationHandler.get"})
        => ret = Ok(URLGet(ParseURL(call.source, Undefined).val, call.prop))

\* C27: a read of document.cookie through the override (of the handler, of
\* uv.client.js) returns the pairs of those cookies only that
\* validateCookie accepts for the page's source URL in a script context,
\* and a write reaches the native setter, with the string that was
\* assigned, only when validateCookie accepts the cookie.
C27_CookieValidated ==
    /\ (ppc = "returned" /\ call.fn \in {"handler.cookie.get", "client.cookie.get"})
          => ret = serializeCookies(ThisMeta, call.cookies, [url |-> call.source], TRUE)
    /\ (ppc = "returned" /\ call.fn \in {"handler.cookie.set", "client.cookie.set"})
          => ret = IF validateCookie(ThisMeta, call.cookie, [url |-> call.source], TRUE)
                   THEN <<CookieString(call.cookie)>>
                   ELSE <<>>

\* C28: once the handler has defined its accessors, a read of
\* document.referrer returns the source form of the native referrer
\* (sourceUrl of it, '' for none), and a read of document.domain returns
\* the hostname of the page's source URL; neither read ends in an
\* exception.
C28_ReferrerDomain ==
    /\ (ppc = "returned" /\ call.fn = "document.referrer" /\ "referrer" \in call.own)
          => ret = Ok(OrElse(handler_sourceUrl(call.referrer, call.source), ""))
    /\ (ppc = "returned" /\ call.fn = "document.domain")
          => ret = Ok(Hostname(ParseURL(call.source, Undefined).val))

\* what the context resolves references against: ctx.base, or else ctx.url
ContextBase == OrElse(ctx.base, ctx.url)

\* the reference is on the skip list of one of the rewriters
SkipListed(url) ==
    \E p \in HandlerSkip \cup ClientSkipPrefixes \cup SwSkipPrefixes \cup {"#", "mailto:", "tel:"} :
        StartsWith(Trim(url), p)

\* prefix + encode(url), in the form and with the codec of the rewriter
\* (the bundle's rewriteUrl puts ctx.origin in front)
ProxyForm(url) ==
    CASE impl = "bundle" -> OrElse(ctx.origin, LocationOrigin) \o Prefix
                            \o CodecEncode(rcodec, url).val
      [] impl = "handler" -> Prefix \o xor_encode(url).val
      [] impl = "client" -> client_encodeUrl(url)
      [] impl = "sw" -> Prefix \o sw_encodeUrl(url)

\* C31: a reference that is not empty, not on a skip list and not proxied
\* yet, and that the URL parser cannot resolve against the context, is
\* returned by each of the four rewriters as the proxied reference that
\* encodes the reference itself; it is not returned as it was given.
C31_UnresolvableEncoded ==
    (/\ rpc = "rewritten"
     /\ Trim(raw) # ""
     /\ ~SkipListed(raw)
     /\ ~Includes(raw, Prefix)
     /\ ~ResolveHref(Trim(raw), ContextBase).ok)
    => rewritten = Ok(ProxyForm(Trim(raw)))

\* C32: the bundle's rewriteUrl and createProxyUrl return, for a reference
\* that is not on their skip list and that resolves against ctx.base (or
\* else ctx.url), the proxied form of the resolved absolute URL; a
\* reference //host/path takes the scheme of the context URL.
C32_ResolvedAgainstContext ==
    (/\ rpc = "rewritten"
     /\ impl \in {"bundle", "sw"}
     /\ raw # ""
     /\ ~SkipListed(raw)
     /\ ~Includes(raw, Prefix)
     /\ ResolveHref(Trim(raw), IF impl = "bundle" THEN ContextBase ELSE ctx.url).ok)
    => rewritten = Ok(ProxyForm(ResolveHref(Trim(raw),
                                            IF impl = "bundle" THEN ContextBase
                                            ELSE ctx.url).val))

\* C37: the handler's rewriteUrl proxies every reference that resolves,
\* unless it is empty, starts with a scheme of the skip list, or starts with
\* the prefix or with the proxy's origin and the prefix: a URL that has the
\* prefix somewhere else is returned as prefix + encode(absolute URL).
C37_PrefixInside ==
    (/\ rpc = "rewritten"
     /\ impl = "handler"
     /\ raw # ""
     /\ ~\E p \in HandlerSkip \cup {Prefix, LocationOrigin \o Prefix} : StartsWith(Trim(raw), p)
     /\ ResolveHref(Trim(raw), ctx.url).ok)
    => rewritten = Ok(Prefix \o xor_encode(ResolveHref(Trim(raw), ctx.url).val).val)

\* C33: the body of a Function constructed in a page of the handler reaches
\* the original Function with each of the identifiers location,
\* document.location and window.location replaced, as a whole, by
\* __uv$location, and with the rest of its text, and the parameters, as
\* they were.
C33_LocationIdentifiers ==
    (ppc = "returned" /\ call.fn = "Function")
        => ret = call.params
                 \o <<call.body.pre
                      \o (IF call.body.id \in {"location", "document.location", "window.location"}
                          THEN "__uv$location"
                          ELSE call.body.id)
                      \o call.body.post>>

\* C38: rewriteJs, rewriteCssUrls and rewriteSrcset of the handler return
\* their own result unchanged: rewriting a text twice gives what rewriting
\* it once gives.
C38_TextIdempotent == (ppc = "returned" /\ call.fn = "twice") => ret[2] = ret[1]

\* the places of the listeners that call respondWith
Interceptors == {i \in 1..Len(listeners) : listeners[i] \in {"respondWith(v)", "respondWith(w)"}}

\* C34: in a call of an override whose listeners do not throw and one of
\* which calls respondWith, the listeners ran in the order of their
\* registration up to the first one that called respondWith and no further,
\* and the call returned the value of that first one.
C34_ShortCircuit ==
    (/\ hpc = "returned"
     /\ hook \in DOMAIN Overrides
     /\ Len(args) >= Overrides[hook].min
     /\ \A i \in 1..Len(listeners) : listeners[i] # "throw"
     /\ Interceptors # {})
    => \E first \in Interceptors :
           /\ \A i \in Interceptors : first <= i
           /\ ran = first
           /\ result = Ok(IF listeners[first] = "respondWith(v)" THEN "v" ELSE "w")

\* C35: every emit invoked the listeners that were registered when it was
\* called, each once and in the order of their registration, also when one
\* of them is a wrapper of once() that removes itself; and over all the
\* emits a wrapper of once() was invoked at most once.
C35_EmitAll ==
    /\ \A n \in 1..Len(emitted) : emitted[n].invoked = emitted[n].registered
    /\ \A k \in 1..MaxSteps :
           Cardinality({<<n, i>> \in (1..Len(emitted)) \X (1..MaxSteps) :
                           /\ i <= Len(emitted[n].invoked)
                           /\ emitted[n].invoked[i].key = k}) <= 1

\* C36: in a page of the handler, whose listeners of setCookie and
\* getCookie do not intercept, the assignment of a string to
\* document.cookie calls the native setter once with that string, and a
\* read of document.cookie returns what the native getter returns.
C36_CookiePassThrough ==
    /\ (ppc = "returned" /\ call.fn = "handler.cookie.set")
          => ret = <<CookieString(call.cookie)>>
    /\ (ppc = "returned" /\ call.fn = "handler.cookie.get")
          => ret = document_cookie(call.cookies)

\* the proxy form of a URL of an attribute: the URL itself when it is on
\* the skip list of uv.client.js, or else the prefix and the token of the
\* URL resolved against the page's URL
ProxiedOnce(url) ==
    IF ~client_shouldProxy(url) THEN url
    ELSE client_encodeUrl(ResolveHref(url, ORIGINAL_URL).val)

\* the candidates 'url descriptor' of a srcset, each with its URL in proxy
\* form
ProxiedSrcset(srcset) ==
    Let(Split(srcset, ","),
        LAMBDA parts :
            Join([i \in 1..Len(parts) |->
                     Let(SplitSpaces(Trim(parts[i])),
                         LAMBDA c : ProxiedOnce(c[1]) \o " " \o c[2])],
                 ", "))

\* C39: once the elements are in the document, after any calls of
\* setAttribute before and after the insertion, every URL attribute of
\* every element has the proxy form, encoded once, of the URL that the
\* markup or the last setAttribute gave it, and so has every candidate of
\* srcset; URLs on the skip list are as they were given.
C39_AttributesProxied ==
    inserted
    => \A e \in Elements, attr \in urlAttributes :
           written[e][attr] # Undefined
           => dom[e][attr] = IF attr = "srcset" THEN ProxiedSrcset(written[e][attr])
                             ELSE ProxiedOnce(written[e][attr])

\* C40: fetch called with a Request calls the original fetch once, with a
\* Request whose URL is the rewritten URL of the Request's URL and whose
\* method, headers and body are those of the Request passed, and with the
\* init of the caller, in uv.handler.js and in uv.client.js.
C40_RequestKept ==
    (ppc = "returned" /\ call.fn \in {"handler.fetch", "client.fetch"})
    => /\ Len(ret) = 1
       /\ ret[1][1].type = "Request"
       /\ ret[1][1].url \in
              IF call.fn = "handler.fetch"
              THEN {handler_rewriteUrl(call.input.url, ORIGINAL_URL, ORIGINAL_URL),
                    LocationOrigin \o handler_rewriteUrl(call.input.url, ORIGINAL_URL,
                                                         ORIGINAL_URL)}
              ELSE {resolveAndEncode(call.input.url, ORIGINAL_URL),
                    LocationOrigin \o resolveAndEncode(call.input.url, ORIGINAL_URL)}
       /\ ret[1][1].method = call.input.method
       /\ ret[1][1].headers = call.input.headers
       /\ ret[1][1].body = call.input.body
       /\ IF call.fn = "client.fetch"
          THEN ret[1][2] = IF call.init = Undefined THEN "{}" ELSE call.init
          ELSE call.init.undefined
               \/ ret[1][2] = IF call.init.headers = Undefined
                               THEN [call.init EXCEPT !.headers = "{}"] ELSE call.init

====
